---- MODULE Spec2Model ----
(***************************************************************************)
(* kz80_calc: the Z80 spreadsheet image emitted by src/src/codegen.rs.     *)
(* The model follows the emitted machine code: memory locations keep the   *)
(* names of the Rust constants that hold their addresses, routines keep    *)
(* the names of their labels.  Bytes are naturals 0..255, a BCD magnitude  *)
(* is a 4-tuple of bytes (most significant first), a text is a sequence of *)
(* ASCII codes whose terminating NUL is implicit.                          *)
(***************************************************************************)
EXTENDS Integers, Sequences, FiniteSets, TLC

VARIABLES cells, heap, FORMULA_PTR, CURSOR_COL, CURSOR_ROW, EDIT_MODE, INPUT_BUF, INPUT_LEN, script, commits, cmds, arg, res

vars == <<cells, heap, FORMULA_PTR, CURSOR_COL, CURSOR_ROW, EDIT_MODE, INPUT_BUF, INPUT_LEN, script, commits, cmds, arg, res>>

progVars == <<cells, heap, FORMULA_PTR, CURSOR_COL, CURSOR_ROW, EDIT_MODE, INPUT_BUF, INPUT_LEN, script, commits, cmds>>

(***************************************************************************)
(* Program constants.                                                      *)
(***************************************************************************)
CELL_DATA == 8192
SCRATCH == 14848
CELL_SIZE == 6
GRID_COLS == 16
GRID_ROWS == 64
CELL_NUMBER == 1
CELL_FORMULA == 2
CELL_ERROR == 3
CELL_REPEAT == 4
CELL_LABEL == 5
INPUT_MAX == 40
\* BCD_TEMP1, the first scratch variable above the heap.
HEAP_END == 15808

(***************************************************************************)
(* Bounds of the model.                                                    *)
(***************************************************************************)
MaxDivIters == 300
MaxCommits == 2
MaxCol == 1
MaxRow == 1
MaxCmds == 1
\* A range walk is followed for 2^MaxWalk cells, twice the 1024 of the grid.
MaxWalk == 11
\* The small ranges of the range functions lie in columns 0..MaxRectCol and
\* rows 0..MaxRectRow.
MaxRectCol == 1
MaxRectRow == 2
\* The number of labels committed before the nearly-full heap is explored.
HeapLabels == 238

(***************************************************************************)
(* ASCII.                                                                  *)
(***************************************************************************)
Chr == ("0" :> 48) @@ ("1" :> 49) @@ ("2" :> 50) @@ ("3" :> 51) @@ ("4" :> 52) @@ ("5" :> 53) @@ ("6" :> 54) @@ ("7" :> 55) @@ ("8" :> 56) @@ ("9" :> 57) @@ ("+" :> 43) @@ ("-" :> 45) @@ ("*" :> 42) @@ ("/" :> 47) @@ ("." :> 46) @@ ("=" :> 61) @@ ("@" :> 64) @@ ("$" :> 36) @@ ("(" :> 40) @@ (")" :> 41) @@ (":" :> 58) @@ ("\"" :> 34) @@ ("A" :> 65) @@ ("B" :> 66) @@ ("C" :> 67) @@ ("G" :> 71) @@ ("I" :> 73) @@ ("M" :> 77) @@ ("N" :> 78) @@ ("O" :> 79) @@ ("S" :> 83) @@ ("T" :> 84) @@ ("U" :> 85) @@ ("V" :> 86) @@ ("X" :> 88) @@ ("h" :> 104) @@ ("i" :> 105) @@ ("x" :> 120)

Asc(s) == [i \in 1..Len(s) |-> Chr[s[i]]]

\* The byte at 1-based position p of a NUL-terminated text.
At(txt, p) == IF p >= 1 /\ p <= Len(txt) THEN txt[p] ELSE 0

IsDigit(c) == c >= 48 /\ c < 58

(***************************************************************************)
(* Byte arithmetic of the Z80 instructions the routines use.               *)
(***************************************************************************)
Hi(x) == x \div 16

Lo(x) == x % 16

RECURSIVE bits(_, _, _, _)
bits(x, y, n, f) == IF n = 0 THEN 0 ELSE f[x % 2][y % 2] + 2 * bits(x \div 2, y \div 2, n - 1, f)

\* XOR r / XOR n
XOR8(x, y) == bits(x, y, 8, 0 :> [b \in {0, 1} |-> b] @@ 1 :> [b \in {0, 1} |-> 1 - b])

\* OR r / OR (HL)
OR8(x, y) == bits(x, y, 8, 0 :> [b \in {0, 1} |-> b] @@ 1 :> [b \in {0, 1} |-> 1])

\* AND n
AND8(x, y) == bits(x, y, 8, 0 :> [b \in {0, 1} |-> 0] @@ 1 :> [b \in {0, 1} |-> b])

\* ADC A,r : accumulator, carry and half-carry after x + y + cy.
ADC(x, y, cy) == [a |-> (x + y + cy) % 256, cy |-> IF x + y + cy >= 256 THEN 1 ELSE 0, h |-> IF Lo(x) + Lo(y) + cy >= 16 THEN 1 ELSE 0]

\* SBC A,r : accumulator, borrow and half-borrow after x - y - cy.
SBC(x, y, cy) == [a |-> (x - y - cy) % 256, cy |-> IF x < y + cy THEN 1 ELSE 0, h |-> IF Lo(x) < Lo(y) + cy THEN 1 ELSE 0]

\* DAA after an addition (n = 0) or a subtraction (n = 1).
DAA(f, n) ==
    LET lowfix == IF f.h = 1 \/ Lo(f.a) > 9 THEN 6 ELSE 0
        highfix == IF f.cy = 1 \/ f.a > 153 THEN 96 ELSE 0
        t == lowfix + highfix
    IN [a |-> IF n = 1 THEN (f.a - t) % 256 ELSE (f.a + t) % 256, cy |-> IF highfix = 96 THEN 1 ELSE 0]

(***************************************************************************)
(* Packed BCD magnitudes.                                                  *)
(***************************************************************************)
Zero4 == <<0, 0, 0, 0>>

Zero8 == <<0, 0, 0, 0, 0, 0, 0, 0>>

\* The decimal number a magnitude stands for, in hundredths.
BcdByte(b) == Hi(b) * 10 + Lo(b)

BcdVal(m) == ((BcdByte(m[1]) * 100 + BcdByte(m[2])) * 100 + BcdByte(m[3])) * 100 + BcdByte(m[4])

PackByte(n) == (n \div 10) * 16 + (n % 10)

\* The magnitude of n hundredths, 0 <= n < 10^8.
Bcd(n) == <<PackByte((n \div 1000000) % 100), PackByte((n \div 10000) % 100), PackByte((n \div 100) % 100), PackByte(n % 100)>>

ValidBcd(m) == \A i \in 1..4 : Hi(m[i]) <= 9 /\ Lo(m[i]) <= 9

RECURSIVE bcd_add_loop(_, _, _, _)
bcd_add_loop(hl, de, b, cy) ==
    IF b = 0 THEN [mag |-> hl, cy |-> cy]
    ELSE LET r == DAA(ADC(de[b], hl[b], cy), 0)
         IN bcd_add_loop([hl EXCEPT ![b] = r.a], de, b - 1, r.cy)

\* (HL) := (HL) + (DE), four bytes from the least significant.
bcd_add(hl, de) == bcd_add_loop(hl, de, 4, 0)

RECURSIVE bcd_sub_loop(_, _, _, _)
bcd_sub_loop(hl, de, b, cy) ==
    IF b = 0 THEN [mag |-> hl, cy |-> cy]
    ELSE LET r == DAA(SBC(hl[b], de[b], cy), 1)
         IN bcd_sub_loop([hl EXCEPT ![b] = r.a], de, b - 1, r.cy)

\* (HL) := (HL) - (DE).
bcd_sub(hl, de) == bcd_sub_loop(hl, de, 4, 0)

RECURSIVE bcd_cmp_loop(_, _, _)
bcd_cmp_loop(hl, de, i) ==
    IF i > 4 THEN [z |-> TRUE, cy |-> FALSE]
    ELSE IF de[i] # hl[i] THEN [z |-> FALSE, cy |-> de[i] < hl[i]]
    ELSE bcd_cmp_loop(hl, de, i + 1)

\* A comparison of the least significant bytes alone.
bcd_cmp_last_byte(hl, de) == [z |-> de[4] = hl[4], cy |-> de[4] < hl[4]]

\* CP (HL) with A = (DE), byte by byte from the most significant:
\* Z when equal, carry when (DE) < (HL).
bcd_cmp(hl, de) == bcd_cmp_loop(hl, de, 1)

\* SLA (HL) on the last byte, then RL (HL) on the three bytes above it:
\* the four bytes shifted left one bit, the top bit dropped.
shl1(m) == <<((m[1] * 2) % 256) + (m[2] \div 128), ((m[2] * 2) % 256) + (m[3] \div 128), ((m[3] * 2) % 256) + (m[4] \div 128), (m[4] * 2) % 256>>

RECURSIVE shl32(_, _)
\* The shift loops atob_shift and atob_scale_loop: b one-bit shifts.
shl32(m, b) == IF b = 0 THEN m ELSE shl32(shl1(m), b - 1)

(***************************************************************************)
(* Scratch memory of one evaluation.  Every location is written before it  *)
(* is read inside a handler, so none of it is part of the state between    *)
(* two keys; divz is a history flag (a '/' met a zero divisor).            *)
(***************************************************************************)
Machine0 == [BCD_TEMP1 |-> Zero4, BCD_TEMP2 |-> Zero4, BCD_ACCUM |-> Zero8, SIGN_ACCUM |-> 0, SIGN_OP |-> 0, TEMP1 |-> 0, TEMP1_1 |-> 0, TEMP2 |-> 1, FUNC_TYPE |-> 0, FUNC_COUNT |-> 0, FUNC_BCD |-> Zero4, FUNC_BCD2 |-> Zero4, FUNC_SIGN |-> 0, FUNC_SIGN2 |-> 0, RANGE_ROW2 |-> 0, RANGE_COL2 |-> 0, RANGE_CUR_COL |-> 0, C |-> 0, walking |-> FALSE, calls |-> <<>>, evals |-> <<>>, hang |-> FALSE, carry |-> FALSE, divz |-> FALSE]

\* bcd_copy with HL = BCD_TEMP1, DE = BCD_TEMP2.
bcd_copy_temp1(m) == [m EXCEPT !.BCD_TEMP1 = m.BCD_TEMP2]

\* signed_add: BCD_TEMP1 := (SIGN_ACCUM, BCD_TEMP2) + (SIGN_OP, BCD_TEMP1),
\* sign of the result in SIGN_ACCUM.
signed_add(m) ==
    IF m.SIGN_OP = m.SIGN_ACCUM
    THEN [m EXCEPT !.BCD_TEMP1 = bcd_add(m.BCD_TEMP1, m.BCD_TEMP2).mag]
    ELSE IF bcd_cmp(m.BCD_TEMP1, m.BCD_TEMP2).cy
    THEN [m EXCEPT !.BCD_TEMP1 = bcd_sub(m.BCD_TEMP1, m.BCD_TEMP2).mag, !.SIGN_ACCUM = m.SIGN_OP]
    ELSE bcd_copy_temp1([m EXCEPT !.BCD_TEMP2 = bcd_sub(m.BCD_TEMP2, m.BCD_TEMP1).mag])

\* bcd_shift_left: the 8-byte accumulator shifted left by one BCD digit.
\* bcd_shl_loop gives every byte its own low nibble as high nibble and the
\* high nibble of the byte below it as low nibble; the last byte takes 0.
bcd_shift_left(acc) == [i \in 1..8 |-> OR8(Lo(acc[i]) * 16, IF i = 8 THEN 0 ELSE Hi(acc[i + 1]))]

\* One pass of bcd_mul_add_loop: bcd_add on BCD_ACCUM+4.
bcd_mul_add(acc, t1) == SubSeq(acc, 1, 4) \o bcd_add(SubSeq(acc, 5, 8), t1).mag

RECURSIVE bcd_mul_add_loop(_, _)
\* bcd_mul_add_loop: the multiplicand added into the low four bytes of the
\* accumulator until the counter st.b (register B, DJNZ) is 0; bcd_add's
\* carry out of them is not used.
bcd_mul_add_loop(t1, st) ==
    IF st.b = 0 THEN st.acc
    ELSE bcd_mul_add_loop(t1, [acc |-> bcd_mul_add(st.acc, t1), b |-> st.b - 1])

bcd_mul_by_digit(acc, t1, a) ==
    IF a = 0 THEN bcd_shift_left(acc) ELSE bcd_mul_add_loop(t1, [acc |-> bcd_shift_left(acc), b |-> a])

RECURSIVE bcd_mul_digit(_, _, _)
\* bcd_mul_digit: the digits of the multiplier from the most significant
\* byte, high nibble first, until the digit counter st.c (register C) is 0.
bcd_mul_digit(t1, t2, st) ==
    IF st.c = 0 THEN st.acc
    ELSE bcd_mul_digit(t1, t2, [acc |-> bcd_mul_by_digit(st.acc, t1, IF st.c % 2 = 0 THEN Hi(t2[(10 - st.c) \div 2]) ELSE AND8(t2[(9 - st.c) \div 2], 15)),
                                c |-> st.c - 1])

\* The end of bcd_mul: the low four bytes of the accumulator to BCD_TEMP1.
bcd_mul_done(m) == [m EXCEPT !.BCD_TEMP1 = SubSeq(m.BCD_ACCUM, 5, 8)]

\* bcd_mul: BCD_TEMP1 := BCD_TEMP1 * BCD_TEMP2 / 100; the 8-byte product
\* is shifted right one byte, then its low four bytes are the result.
bcd_mul(m) == bcd_mul_done([m EXCEPT !.BCD_ACCUM = <<0>> \o SubSeq(bcd_mul_digit(m.BCD_TEMP1, m.BCD_TEMP2, [acc |-> Zero8, c |-> 8]), 1, 7)])

RECURSIVE bcd_div_carry(_, _, _)
\* bcd_div_carry: the carry of the quotient's last byte propagated through
\* the three bytes above it.
bcd_div_carry(q, i, b) ==
    IF b = 0 THEN q
    ELSE LET r == DAA(ADC(q[i], 0, 1), 0)
         IN IF r.cy = 0 THEN [q EXCEPT ![i] = r.a] ELSE bcd_div_carry([q EXCEPT ![i] = r.a], i - 1, b - 1)

\* The BCD quotient counter in BCD_ACCUM+4..7 incremented by one.
bcd_div_inc(acc) ==
    LET r == DAA(ADC(acc[8], 1, 0), 0)
        q == [acc EXCEPT ![8] = r.a]
    IN IF r.cy = 0 THEN q ELSE bcd_div_carry(q, 7, 3)

\* One pass of bcd_div_loop that does not leave it: BCD_TEMP1 -= BCD_TEMP2
\* and the quotient counter incremented.
bcd_div_body(m) == [m EXCEPT !.BCD_TEMP1 = bcd_sub(m.BCD_TEMP1, m.BCD_TEMP2).mag, !.BCD_ACCUM = bcd_div_inc(m.BCD_ACCUM)]

RECURSIVE bcd_div_run(_, _)
\* The loop "until BCD_TEMP1 < BCD_TEMP2 do bcd_div_body", for at most 2^k
\* passes: the exit test comes before every pass; the first half of the
\* passes gives h, the second half starts from h.
bcd_div_run(m, k) ==
    IF bcd_cmp(m.BCD_TEMP2, m.BCD_TEMP1).cy THEN m
    ELSE IF k = 0 THEN bcd_div_body(m)
    ELSE CHOOSE r \in {bcd_div_run(h, k - 1) : h \in {bcd_div_run(m, k - 1)}} : TRUE

\* bcd_div_done2: the quotient copied to BCD_TEMP1, carry clear.
bcd_div_done2(m) == [m EXCEPT !.BCD_TEMP1 = SubSeq(m.BCD_ACCUM, 5, 8), !.carry = FALSE]

\* bcd_div_loop: subtract until BCD_TEMP1 < BCD_TEMP2, then bcd_div_done2.
bcd_div_loop(m) == bcd_div_done2(bcd_div_run(m, 12))

\* bcd_div_noscale: BCD_TEMP1 := BCD_TEMP1 / BCD_TEMP2 by repeated subtraction.
\* With BCD_TEMP2 zero the exit test BCD_TEMP1 < BCD_TEMP2 never holds and
\* the loop does not end: hang.
bcd_div_noscale(m) == IF m.BCD_TEMP2 = Zero4 THEN [m EXCEPT !.BCD_ACCUM = Zero8, !.hang = TRUE] ELSE bcd_div_loop([m EXCEPT !.BCD_ACCUM = Zero8])

\* bcd_div: BCD_TEMP1 := BCD_TEMP1 * 100 / BCD_TEMP2; carry on a zero divisor.
bcd_div(m) ==
    IF OR8(OR8(OR8(m.BCD_TEMP2[1], m.BCD_TEMP2[2]), m.BCD_TEMP2[3]), m.BCD_TEMP2[4]) = 0
    THEN [m EXCEPT !.carry = TRUE, !.divz = TRUE]
    ELSE bcd_div_noscale([m EXCEPT !.BCD_TEMP1 = <<m.BCD_TEMP1[2], m.BCD_TEMP1[3], m.BCD_TEMP1[4], 0>>])

RECURSIVE atob_loop(_, _, _)
\* atob_loop: r.flag is ATOB_FLAGS (255 until a '.' is met), r.frac is
\* ATOB_FLAGS+1 (fractional digits taken), r.mag is BCD_TEMP1.
atob_loop(txt, p, r) ==
    IF At(txt, p) = 0 THEN r
    ELSE IF At(txt, p) = 46 THEN atob_loop(txt, p + 1, [r EXCEPT !.flag = 0])
    ELSE IF At(txt, p) < 48 \/ At(txt, p) >= 58 THEN r
    ELSE IF r.frac >= 2 THEN r
    ELSE atob_loop(txt, p + 1, [mag |-> [shl32(r.mag, 4) EXCEPT ![4] = OR8(At(txt, p) - 48, shl32(r.mag, 4)[4])],
                                flag |-> r.flag,
                                frac |-> IF r.flag = 0 THEN (r.frac + 1) % 256 ELSE r.frac])

\* atob_done: the digits scaled to two decimals by the count of
\* fractional digits taken.
atob_done(r) ==
    IF r.flag # 0 THEN shl32(r.mag, 8)
    ELSE IF r.frac >= 2 THEN r.mag
    ELSE IF r.frac = 1 THEN shl32(r.mag, 4)
    ELSE shl32(r.mag, 8)

\* The state atob_loop starts from: BCD_TEMP1 zero, no '.' seen.
atob_init == [mag |-> Zero4, flag |-> 255, frac |-> 0]

ascii_to_bcd_unscaled(txt, p) ==
    atob_loop(txt, IF At(txt, p) = 45 THEN p + 1 ELSE p, atob_init).mag

\* ascii_to_bcd: the text at position p converted into BCD_TEMP1.
ascii_to_bcd(txt, p) == atob_done(atob_loop(txt, IF At(txt, p) = 45 THEN p + 1 ELSE p, atob_init))

\* bcd_to_ascii: the nine characters written to INPUT_BUF (INPUT_LEN := 9).
bcd_to_ascii(mag) ==
    <<Hi(mag[1]) + 48, AND8(mag[1], 15) + 48, Hi(mag[2]) + 48, AND8(mag[2], 15) + 48, Hi(mag[3]) + 48, AND8(mag[3], 15) + 48, 46, Hi(mag[4]) + 48, AND8(mag[4], 15) + 48>>

(***************************************************************************)
(* Memory reads.  cs is the cell store (cell address -> six bytes), hp the *)
(* formula heap (address -> byte); a byte never written reads as 0.        *)
(***************************************************************************)
EmptyCell == <<0, 0, 0, 0, 0, 0>>

CellAt(cs, a) == IF a \in DOMAIN cs THEN cs[a] ELSE EmptyCell

InCellStore(a) == a >= CELL_DATA /\ a < CELL_DATA + GRID_COLS * GRID_ROWS * CELL_SIZE

Peek(cs, hp, a) ==
    IF InCellStore(a) THEN CellAt(cs, a - ((a - CELL_DATA) % CELL_SIZE))[((a - CELL_DATA) % CELL_SIZE) + 1]
    ELSE IF a \in DOMAIN hp THEN hp[a] ELSE 0

Peek4(cs, hp, a) == <<Peek(cs, hp, a), Peek(cs, hp, a + 1), Peek(cs, hp, a + 2), Peek(cs, hp, a + 3)>>

\* ADD HL,HL and ADD HL,DE on 16-bit registers.
add_hl_hl(hl) == (hl + hl) % 65536

add_hl_de(hl, de) == (hl + de) % 65536

\* HL * 6 as HL * 4 + HL * 2.
mul_hl_6(hl) == add_hl_de(add_hl_hl(add_hl_hl(hl)), add_hl_hl(hl))

get_cell_addr_8bit(col, row) == CELL_DATA + ((((row * 16) % 256) + col) % 256) * 6

\* get_cell_addr: B = col, C = row; HL = row, shifted left four times, plus
\* col, times 6, plus CELL_DATA.
get_cell_addr(col, row) == add_hl_de(mul_hl_6(add_hl_de(add_hl_hl(add_hl_hl(add_hl_hl(add_hl_hl(row)))), col)), CELL_DATA)

RECURSIVE FindEnd(_, _, _)
\* parse_op_find_end / pf_scan_formula: the address after the first NUL at or after a.
FindEnd(cs, hp, a) == IF Peek(cs, hp, a) = 0 THEN a + 1 ELSE FindEnd(cs, hp, a + 1)

RECURSIVE parse_row_loop(_, _, _)
\* parse_row_loop, pf_row1_loop, pf_row2_loop: decimal digits accumulated in
\* the 8-bit register C.
parse_row_loop(txt, p, c) ==
    IF c < 256 /\ IsDigit(At(txt, p)) THEN parse_row_loop(txt, p + 1, (c * 10 + (At(txt, p) - 48)) % 256)
    ELSE [p |-> p, c |-> c]

RECURSIVE parse_opn_scan(_, _)
parse_opn_scan(txt, p) == IF At(txt, p) = 46 \/ IsDigit(At(txt, p)) THEN parse_opn_scan(txt, p + 1) ELSE p

\* parse_op_number: a literal, sign in TEMP1, magnitude in BCD_TEMP1.
parse_op_number(m, txt) ==
    LET hl == m.TEMP2
        start == IF At(txt, hl) = 45 THEN hl + 1 ELSE hl
    IN [m EXCEPT !.TEMP1 = IF At(txt, hl) = 45 THEN 128 ELSE 0,
                 !.BCD_TEMP1 = ascii_to_bcd(txt, start),
                 !.TEMP2 = parse_opn_scan(txt, start),
                 !.carry = FALSE]

\* The value cached after the text of the formula a Formula cell points to.
parse_op_formula(m, cs, hp, addr) ==
    LET e == FindEnd(cs, hp, Peek(cs, hp, addr + 2) + 256 * Peek(cs, hp, addr + 3))
    IN [m EXCEPT !.TEMP1 = Peek(cs, hp, e), !.BCD_TEMP1 = Peek4(cs, hp, e + 1), !.carry = FALSE]

\* CALL get_cell_addr with B = col, C = row: the call is recorded in calls.
call_get_cell_addr(m, col, row) == [m EXCEPT !.calls = Append(m.calls, <<col, row>>)]

\* parse_row_done: the referenced cell read by its type byte.
parse_row_done(m, cs, hp, col, row) ==
    LET addr == get_cell_addr(col, row)
        type == Peek(cs, hp, addr)
        mc == call_get_cell_addr(m, col, row)
    IN IF type = 0 THEN [mc EXCEPT !.BCD_TEMP1 = Zero4, !.TEMP1 = 0, !.carry = FALSE]
       ELSE IF type = CELL_FORMULA THEN parse_op_formula(mc, cs, hp, addr)
       ELSE [mc EXCEPT !.TEMP1 = Peek(cs, hp, addr + 1), !.BCD_TEMP1 = Peek4(cs, hp, addr + 2), !.carry = FALSE]

\* RLCA x4.
RLCA4(x) == ((x * 16) % 256) + (x \div 16)

\* pf_cvt_tens / pf_cnt_cvt: the low byte of the count as two BCD nibbles.
CountBcd(l) == OR8(RLCA4(l \div 10), l % 10)

\* pf_done: the function's result by FUNC_TYPE.
pf_done(m) ==
    IF m.FUNC_TYPE = 0 \/ m.FUNC_TYPE = 2 \/ m.FUNC_TYPE = 3
    THEN [m EXCEPT !.BCD_TEMP1 = m.FUNC_BCD, !.TEMP1 = m.FUNC_SIGN, !.carry = FALSE]
    ELSE IF m.FUNC_TYPE = 1
    THEN IF m.FUNC_COUNT = 0
         THEN [m EXCEPT !.BCD_TEMP1 = Zero4, !.TEMP1 = 0, !.carry = FALSE]
         ELSE LET d == bcd_div_noscale([m EXCEPT !.BCD_TEMP1 = m.FUNC_BCD, !.BCD_TEMP2 = <<0, 0, 0, CountBcd(m.FUNC_COUNT % 256)>>])
              IN [d EXCEPT !.TEMP1 = m.FUNC_SIGN, !.carry = FALSE]
    ELSE [m EXCEPT !.BCD_TEMP1 = <<0, 0, CountBcd(m.FUNC_COUNT % 256), 0>>, !.TEMP1 = 0, !.carry = FALSE]

\* The end of the SUM and AVG path: signed_add's result and sign kept in
\* FUNC_BCD and FUNC_SIGN.
pf_sum_store(m) == [m EXCEPT !.FUNC_BCD = m.BCD_TEMP1, !.FUNC_SIGN = m.SIGN_ACCUM]

\* pf_read_bcd on: a Number or Formula cell taken into the function's accumulator.
pf_read_bcd(m, sign2, bcd2) ==
    LET m1 == [m EXCEPT !.FUNC_SIGN2 = sign2, !.FUNC_BCD2 = bcd2, !.FUNC_COUNT = (m.FUNC_COUNT + 1) % 65536]
    IN IF m.FUNC_TYPE = 2
       THEN IF bcd_cmp(m.FUNC_BCD, bcd2).cy THEN [m1 EXCEPT !.FUNC_BCD = bcd2, !.FUNC_SIGN = sign2] ELSE m1
       ELSE IF m.FUNC_TYPE = 3
       THEN IF bcd_cmp(bcd2, m.FUNC_BCD).cy THEN [m1 EXCEPT !.FUNC_BCD = bcd2, !.FUNC_SIGN = sign2] ELSE m1
       ELSE pf_sum_store(signed_add([m1 EXCEPT !.BCD_TEMP2 = m.FUNC_BCD, !.BCD_TEMP1 = bcd2, !.SIGN_ACCUM = m.FUNC_SIGN, !.SIGN_OP = sign2]))

\* pf_row_loop up to pf_next: the cell at (RANGE_CUR_COL, c), added to the
\* accumulators when its type is Number or Formula.
pf_cell(m, cs, hp, c) ==
    LET addr == get_cell_addr(m.RANGE_CUR_COL, c)
        type == Peek(cs, hp, addr)
        mc == call_get_cell_addr(m, m.RANGE_CUR_COL, c)
    IN IF type = CELL_NUMBER THEN pf_read_bcd(mc, Peek(cs, hp, addr + 1), Peek4(cs, hp, addr + 2))
       ELSE IF type = CELL_FORMULA
       THEN LET e == FindEnd(cs, hp, Peek(cs, hp, addr + 2) + 256 * Peek(cs, hp, addr + 3))
            IN pf_read_bcd(mc, Peek(cs, hp, e), Peek4(cs, hp, e + 1))
       ELSE mc

\* A walk that ends after the first column of the range.
pf_next_col_first_only(m) == [m EXCEPT !.RANGE_CUR_COL = (m.RANGE_CUR_COL + 1) % 256, !.walking = FALSE]

\* pf_next_col: INC RANGE_CUR_COL; past RANGE_COL2 the walk is over, else
\* pf_col_loop reloads the row counter C from TEMP1+1.
pf_next_col(m) ==
    IF m.RANGE_COL2 < (m.RANGE_CUR_COL + 1) % 256
    THEN [m EXCEPT !.RANGE_CUR_COL = (m.RANGE_CUR_COL + 1) % 256, !.walking = FALSE]
    ELSE [m EXCEPT !.RANGE_CUR_COL = (m.RANGE_CUR_COL + 1) % 256, !.C = m.TEMP1_1]

\* pf_next: INC C; past RANGE_ROW2 the next column.
pf_next(m) == IF m.RANGE_ROW2 < (m.C + 1) % 256 THEN pf_next_col([m EXCEPT !.C = (m.C + 1) % 256]) ELSE [m EXCEPT !.C = (m.C + 1) % 256]

\* pf_row_loop: one pass, the cell at (RANGE_CUR_COL, C) and the step to
\* the next one.
pf_row_loop(m, cs, hp) == pf_next(pf_cell(m, cs, hp, m.C))

RECURSIVE pf_walk(_, _, _, _)
\* Up to 2^(k+1) - 1 passes of pf_row_loop, stopping when the walk is over.
pf_walk(m, cs, hp, k) ==
    IF ~m.walking THEN m
    ELSE IF k = 0 THEN pf_row_loop(m, cs, hp)
    ELSE CHOOSE r \in {pf_walk(h, cs, hp, k - 1) : h \in {pf_walk(m, cs, hp, k - 1)}} : TRUE

\* pf_col_loop: every column from RANGE_CUR_COL to RANGE_COL2, every row
\* from TEMP1+1 to RANGE_ROW2 in each, then pf_done.
pf_col_loop(m, cs, hp) == pf_done(pf_walk([m EXCEPT !.C = m.TEMP1_1, !.walking = TRUE], cs, hp, MaxWalk))

\* AND 0xDF on the character at p.
Up(txt, p) == AND8(At(txt, p), 223)

pf_error(m) == [m EXCEPT !.carry = TRUE]

\* pf_sum, pf_avg, pf_minmax, pf_min, pf_count: the name after '@', its
\* FUNC_TYPE and the position of its last letter.
pf_name(txt, hl) ==
    IF Up(txt, hl) = 83 THEN [ok |-> Up(txt, hl + 1) = 85 /\ Up(txt, hl + 2) = 77, type |-> 0, last |-> hl + 2]
    ELSE IF Up(txt, hl) = 65 THEN [ok |-> Up(txt, hl + 1) = 86 /\ Up(txt, hl + 2) = 71, type |-> 1, last |-> hl + 2]
    ELSE IF Up(txt, hl) = 77 /\ Up(txt, hl + 1) = 73 THEN [ok |-> Up(txt, hl + 2) = 78, type |-> 2, last |-> hl + 2]
    ELSE IF Up(txt, hl) = 77 THEN [ok |-> Up(txt, hl + 1) = 65 /\ Up(txt, hl + 2) = 88, type |-> 3, last |-> hl + 2]
    ELSE IF Up(txt, hl) = 67 THEN [ok |-> Up(txt, hl + 1) = 79 /\ Up(txt, hl + 2) = 85 /\ Up(txt, hl + 3) = 78 /\ Up(txt, hl + 4) = 84, type |-> 4, last |-> hl + 4]
    ELSE [ok |-> FALSE, type |-> 0, last |-> hl]

\* pf_parse_paren to pf_init_done: "(" col1 row1 ":" col2 row2 ")".  col1
\* goes to TEMP1, row1 - 1 to TEMP1+1, then the accumulators are cleared
\* and the range is walked.
pf_parse_paren(m, txt, cs, hp, hl) ==
    IF At(txt, hl) # 40 THEN pf_error(m)
    ELSE IF Up(txt, hl + 1) < 65 \/ Up(txt, hl + 1) >= 81 THEN pf_error(m)
    ELSE LET r1 == parse_row_loop(txt, hl + 2, 0)
             m1 == [m EXCEPT !.TEMP1 = Up(txt, hl + 1) - 65, !.TEMP1_1 = (r1.c - 1) % 256]
         IN IF At(txt, r1.p) # 58 THEN pf_error(m1)
            ELSE IF Up(txt, r1.p + 1) < 65 THEN pf_error(m1)
            ELSE LET r2 == parse_row_loop(txt, r1.p + 2, 0)
                     m2 == [m1 EXCEPT !.RANGE_COL2 = Up(txt, r1.p + 1) - 65, !.RANGE_ROW2 = (r2.c - 1) % 256]
                 IN IF At(txt, r2.p) # 41 THEN pf_error(m2)
                    ELSE pf_col_loop([m2 EXCEPT !.TEMP2 = r2.p + 1,
                                                !.FUNC_BCD = IF m.FUNC_TYPE = 2 THEN <<153, 153, 153, 153>> ELSE Zero4,
                                                !.FUNC_COUNT = 0,
                                                !.FUNC_SIGN = 0,
                                                !.RANGE_CUR_COL = m1.TEMP1], cs, hp)

\* parse_func: @SUM, @AVG, @MIN, @MAX, @COUNT over a range; n is what the
\* name checks found.
pf_named(n, m, txt, cs, hp) == IF n.ok THEN pf_parse_paren([m EXCEPT !.FUNC_TYPE = n.type], txt, cs, hp, n.last + 1) ELSE pf_error(m)

parse_func(m, txt, cs, hp) == pf_named(pf_name(txt, m.TEMP2 + 1), m, txt, cs, hp)

\* parse_operand: a range function, a cell reference or a literal at TEMP2.
parse_operand(m, txt, cs, hp) ==
    LET hl0 == m.TEMP2
        hl1 == IF At(txt, hl0) = 36 THEN hl0 + 1 ELSE hl0
        a == IF At(txt, hl1) >= 97 /\ At(txt, hl1) < 123 THEN At(txt, hl1) - 32 ELSE At(txt, hl1)
        hl2 == IF At(txt, hl1 + 1) = 36 THEN hl1 + 2 ELSE hl1 + 1
        r == parse_row_loop(txt, hl2, 0)
    IN IF At(txt, hl0) = 64 THEN parse_func(m, txt, cs, hp)
       ELSE IF a < 65 \/ a >= 81 THEN parse_op_number(m, txt)
       ELSE parse_row_done([m EXCEPT !.TEMP2 = r.p], cs, hp, a - 65, (r.c - 1) % 256)

\* eval_add: the accumulator (SIGN_ACCUM, BCD_TEMP2) plus the operand
\* (SIGN_OP, BCD_TEMP1).
eval_add(m) ==
    IF m.SIGN_OP = m.SIGN_ACCUM
    THEN [m EXCEPT !.BCD_TEMP1 = bcd_add(m.BCD_TEMP1, m.BCD_TEMP2).mag]
    ELSE IF bcd_cmp(m.BCD_TEMP1, m.BCD_TEMP2).cy
    THEN [m EXCEPT !.BCD_TEMP1 = bcd_sub(m.BCD_TEMP1, m.BCD_TEMP2).mag, !.SIGN_ACCUM = m.SIGN_OP]
    ELSE bcd_copy_temp1([m EXCEPT !.BCD_TEMP2 = bcd_sub(m.BCD_TEMP2, m.BCD_TEMP1).mag])

eval_sub(m) == eval_add([m EXCEPT !.SIGN_OP = XOR8(m.SIGN_OP, 128)])

eval_mul(m) == bcd_mul([m EXCEPT !.SIGN_ACCUM = XOR8(m.SIGN_OP, m.SIGN_ACCUM)])

\* eval_div: the sign, the swap of BCD_TEMP1 and BCD_TEMP2 through
\* BCD_ACCUM, bcd_div; the carry bcd_div returns is not tested.
eval_div(m) ==
    bcd_div([m EXCEPT !.SIGN_ACCUM = XOR8(m.SIGN_OP, m.SIGN_ACCUM),
                      !.BCD_ACCUM = m.BCD_TEMP1 \o SubSeq(m.BCD_ACCUM, 5, 8),
                      !.BCD_TEMP1 = m.BCD_TEMP2,
                      !.BCD_TEMP2 = m.BCD_TEMP1])

IsOperator(c) == c = 43 \/ c = 45 \/ c = 42 \/ c = 47

\* The dispatch on the operator saved in TEMP1+1.
eval_dispatch(m) ==
    IF m.TEMP1_1 = 43 THEN eval_add(m)
    ELSE IF m.TEMP1_1 = 45 THEN eval_sub(m)
    ELSE IF m.TEMP1_1 = 42 THEN eval_mul(m)
    ELSE IF m.TEMP1_1 = 47 THEN eval_div(m)
    ELSE [m EXCEPT !.carry = TRUE]

eval_load_operands_stale(m) == [m EXCEPT !.SIGN_OP = m.TEMP1]

\* After parse_operand in eval_loop: the operand's sign to SIGN_OP, the
\* saved accumulator from BCD_ACCUM to BCD_TEMP2.
eval_load_operands(m) == [m EXCEPT !.SIGN_OP = m.TEMP1, !.BCD_TEMP2 = SubSeq(m.BCD_ACCUM, 1, 4)]

RECURSIVE eval_loop(_, _, _, _)
\* eval_loop after its parse_operand returned m: eval_chain_error on
\* carry, else the operands loaded, the operation done, and eval_loop again.
eval_operate(m, txt, cs, hp) ==
    IF m.carry THEN m
    ELSE IF IsOperator(m.TEMP1_1) THEN eval_loop(eval_dispatch(eval_load_operands(m)), txt, cs, hp)
    ELSE [eval_load_operands(m) EXCEPT !.carry = TRUE]

\* eval_loop: the accumulator saved in BCD_ACCUM; eval_done at the NUL,
\* else the operator saved in TEMP1+1 and the next operand parsed.
eval_loop(m, txt, cs, hp) ==
    IF At(txt, m.TEMP2) = 0 THEN [m EXCEPT !.BCD_ACCUM = m.BCD_TEMP1 \o SubSeq(m.BCD_ACCUM, 5, 8), !.carry = FALSE]
    ELSE eval_operate(parse_operand([m EXCEPT !.BCD_ACCUM = m.BCD_TEMP1 \o SubSeq(m.BCD_ACCUM, 5, 8), !.TEMP1_1 = At(txt, m.TEMP2), !.TEMP2 = m.TEMP2 + 1], txt, cs, hp), txt, cs, hp)

\* eval_expr after its first parse_operand returned m: the operand's sign
\* becomes the accumulator's.
eval_first(m, txt, cs, hp) == IF m.carry THEN m ELSE eval_loop([m EXCEPT !.SIGN_ACCUM = m.TEMP1], txt, cs, hp)

\* eval_expr: the expression at position p of txt; the value in SIGN_ACCUM
\* and BCD_TEMP1, carry on error.
eval_expr(m, txt, p, cs, hp) == eval_first(parse_operand([m EXCEPT !.TEMP2 = p], txt, cs, hp), txt, cs, hp)

(***************************************************************************)
(* State after the startup code: cursor at A1, navigation mode, the heap   *)
(* pointer at SCRATCH, every cell byte cleared.  cells and heap are sparse *)
(* maps from address to contents; an absent cell is six zero bytes.        *)
(***************************************************************************)
EmptyMem == [a \in {} |-> 0]

startup ==
    /\ cells = EmptyMem
    /\ heap = EmptyMem
    /\ FORMULA_PTR = SCRATCH
    /\ CURSOR_COL = 0
    /\ CURSOR_ROW = 0
    /\ EDIT_MODE = 0
    /\ INPUT_BUF = <<>>
    /\ INPUT_LEN = 0
    /\ script = <<>>
    /\ commits = 0
    /\ cmds = 0

NoRes == [op |-> "none"]

(***************************************************************************)
(* The handlers of the main loop.                                          *)
(***************************************************************************)
\* Memory writes: a cell's six bytes, a run of bytes in the heap.
SetCell(cs, a, c) == (a :> c) @@ cs

PokeSeq(hp, a, s) ==
    [x \in (DOMAIN hp) \cup {a + i - 1 : i \in 1..Len(s)} |-> IF x >= a /\ x < a + Len(s) THEN s[x - a + 1] ELSE hp[x]]

RECURSIVE HeapText(_, _, _)
\* The NUL-terminated text at address a.
HeapText(cs, hp, a) == IF Peek(cs, hp, a) = 0 THEN <<>> ELSE <<Peek(cs, hp, a)>> \o HeapText(cs, hp, a + 1)

\* store_error: only the type byte of the cell is written.
store_error(cs, addr) == SetCell(cs, addr, [CellAt(cs, addr) EXCEPT ![1] = CELL_ERROR])

\* parse_number: sign in C, magnitude in BCD_TEMP1, carry when no digit
\* follows the optional '-'.
parse_number(buf) ==
    LET p == IF At(buf, 1) = 45 THEN 2 ELSE 1
    IN [carry |-> ~IsDigit(At(buf, p)), C |-> IF At(buf, 1) = 45 THEN 128 ELSE 0, mag |-> ascii_to_bcd(buf, p)]

\* parse_formula: the text copied to the heap at FORMULA_PTR (heap hp1),
\* the expression after '=' evaluated (machine m); on success the sign and
\* the four BCD bytes stored after the text, FORMULA_PTR moved past them
\* and the cell made a Formula cell; on carry formula_eval_error, that is
\* store_error.
parse_formula_store(m, len, cs, hp1, fp, addr) ==
    IF m.carry
    THEN [cells |-> store_error(cs, addr), heap |-> hp1, FORMULA_PTR |-> fp, carry |-> TRUE, divz |-> m.divz]
    ELSE [cells |-> SetCell(cs, addr, <<CELL_FORMULA, 0, fp % 256, fp \div 256, CellAt(cs, addr)[5], CellAt(cs, addr)[6]>>),
          heap |-> PokeSeq(hp1, fp + len + 1, <<m.SIGN_ACCUM>> \o m.BCD_TEMP1),
          FORMULA_PTR |-> fp + len + 6,
          carry |-> FALSE,
          divz |-> m.divz]

parse_formula_eval(buf, len, cs, hp1, fp, addr) == parse_formula_store(eval_expr(Machine0, buf, 2, cs, hp1), len, cs, hp1, fp, addr)

parse_formula(buf, len, cs, hp, fp, addr) ==
    IF len < 2 THEN [cells |-> store_error(cs, addr), heap |-> hp, FORMULA_PTR |-> fp, carry |-> TRUE, divz |-> FALSE]
    ELSE parse_formula_eval(buf, len, cs, PokeSeq(hp, fp, buf \o <<0>>), fp, addr)

\* A label stored at the start of the heap, whatever it holds.
parse_label_at_start(buf, len, cs, hp, fp, addr) ==
    [cells |-> SetCell(cs, addr, <<CELL_LABEL, 0, SCRATCH % 256, SCRATCH \div 256, CellAt(cs, addr)[5], CellAt(cs, addr)[6]>>),
     heap |-> PokeSeq(hp, SCRATCH, buf \o <<0>>),
     FORMULA_PTR |-> SCRATCH + len + 1,
     carry |-> FALSE,
     divz |-> FALSE]

\* parse_label: the text copied to the heap, the cell made a Label cell.
parse_label(buf, len, cs, hp, fp, addr) ==
    LET old == CellAt(cs, addr)
    IN [cells |-> SetCell(cs, addr, <<CELL_LABEL, 0, fp % 256, fp \div 256, old[5], old[6]>>),
        heap |-> PokeSeq(hp, fp, buf \o <<0>>),
        FORMULA_PTR |-> fp + len + 1,
        carry |-> FALSE,
        divz |-> FALSE]

\* parse_and_store after parse_number returned n: store_error on carry,
\* else the type, the sign and the four BCD bytes written to the cell.
store_number(n, cs, hp, fp, addr) ==
    [cells |-> IF n.carry THEN store_error(cs, addr) ELSE SetCell(cs, addr, <<CELL_NUMBER, n.C>> \o n.mag),
     heap |-> hp,
     FORMULA_PTR |-> fp,
     carry |-> n.carry,
     divz |-> FALSE]

\* parse_and_store: the input buffer stored in the cell under the cursor.
parse_and_store(buf, len, cs, hp, fp, addr) ==
    IF len = 0 THEN [cells |-> cs, heap |-> hp, FORMULA_PTR |-> fp, carry |-> FALSE, divz |-> FALSE]
    ELSE IF buf[1] = 61 THEN parse_formula(buf, len, cs, hp, fp, addr)
    ELSE IF buf[1] = 34 THEN parse_label(buf, len, cs, hp, fp, addr)
    ELSE store_number(parse_number(buf), cs, hp, fp, addr)

RECURSIVE int_to_str_extract(_)
\* int_to_str_extract: the decimal digits of HL, at least one.
int_to_str_extract(hl) == IF hl < 10 THEN <<48 + hl>> ELSE int_to_str_extract(hl \div 10) \o <<48 + (hl % 10)>>

\* int_to_str: HL as a signed 16-bit integer in decimal.
int_to_str(hl) == IF hl >= 32768 THEN <<45>> \o int_to_str_extract((65536 - hl) % 65536) ELSE int_to_str_extract(hl)

\* load_cell_to_input: the text start_edit puts in INPUT_BUF.
load_cell_to_input(cs, hp, addr) ==
    LET type == Peek(cs, hp, addr)
        de == Peek(cs, hp, addr + 2) + 256 * Peek(cs, hp, addr + 3)
    IN IF type = CELL_NUMBER THEN int_to_str(de)
       ELSE IF type = CELL_FORMULA THEN HeapText(cs, hp, de)
       ELSE <<>>

\* The body of recalc_loop for one Formula cell: the expression after '='
\* evaluated, then BCD_TEMP1 copied to the address after the text's NUL.
recalc_store_loop(m, cs, hp, de) == [heap |-> PokeSeq(hp, FindEnd(cs, hp, de), m.BCD_TEMP1), m |-> [m EXCEPT !.evals = Append(m.evals, [ptr |-> de, sign |-> m.SIGN_ACCUM, mag |-> m.BCD_TEMP1])]]

recalc_formula(cs, st, de) == recalc_store_loop(eval_expr(st.m, HeapText(cs, st.heap, de), 2, cs, st.heap), cs, st.heap, de)

recalc_cell(cs, st, addr) == recalc_formula(cs, st, Peek(cs, st.heap, addr + 2) + 256 * Peek(cs, st.heap, addr + 3))

RECURSIVE recalc_loop(_, _, _)
\* recalc_loop: the Formula cells among the 1024 cells, by rising address.
recalc_loop(cs, st, todo) ==
    IF todo = {} THEN st
    ELSE LET a == CHOOSE x \in todo : \A y \in todo : x <= y
         IN recalc_loop(cs, recalc_cell(cs, st, a), todo \ {a})

(***************************************************************************)
(* The keys.  A text is typed key by key from script, which the key that   *)
(* opens the input line draws from a small set; CR comes once the text is  *)
(* typed.  res remembers the last operation that wrote the sheet.          *)
(***************************************************************************)
NumberScripts == {Asc(<<"3">>), Asc(<<"4">>), Asc(<<"-">>)}

FormulaScripts == {Asc(<<"A", "1", "+", "A", "2">>), Asc(<<"4", "/", "0">>), Asc(<<"A", "1">>)}

EditScripts == {<<>>, Asc(<<"\"", "h", "i">>)}

RepeatChars == {45}

Init ==
    /\ startup
    /\ arg = <<>>
    /\ res = NoRes

move_left ==
    /\ EDIT_MODE = 0
    /\ CURSOR_COL' = IF CURSOR_COL = 0 THEN CURSOR_COL ELSE CURSOR_COL - 1
    /\ UNCHANGED <<cells, heap, FORMULA_PTR, CURSOR_ROW, EDIT_MODE, INPUT_BUF, INPUT_LEN, script, commits, cmds, arg, res>>

\* move_right without the test of the right edge.
move_right_no_edge(maxcol) ==
    /\ EDIT_MODE = 0
    /\ CURSOR_COL < maxcol
    /\ CURSOR_COL' = CURSOR_COL + 1
    /\ UNCHANGED <<cells, heap, FORMULA_PTR, CURSOR_ROW, EDIT_MODE, INPUT_BUF, INPUT_LEN, script, commits, cmds, arg, res>>

\* move_right, explored while the cursor is left of column maxcol.
move_right_within(maxcol) ==
    /\ EDIT_MODE = 0
    /\ CURSOR_COL < maxcol
    /\ CURSOR_COL' = IF CURSOR_COL >= GRID_COLS - 1 THEN CURSOR_COL ELSE CURSOR_COL + 1
    /\ UNCHANGED <<cells, heap, FORMULA_PTR, CURSOR_ROW, EDIT_MODE, INPUT_BUF, INPUT_LEN, script, commits, cmds, arg, res>>

move_right == move_right_within(MaxCol)

move_up ==
    /\ EDIT_MODE = 0
    /\ CURSOR_ROW' = IF CURSOR_ROW = 0 THEN CURSOR_ROW ELSE CURSOR_ROW - 1
    /\ UNCHANGED <<cells, heap, FORMULA_PTR, CURSOR_COL, EDIT_MODE, INPUT_BUF, INPUT_LEN, script, commits, cmds, arg, res>>

\* move_down, explored while the cursor is above row maxrow.
move_down_within(maxrow) ==
    /\ EDIT_MODE = 0
    /\ CURSOR_ROW < maxrow
    /\ CURSOR_ROW' = IF CURSOR_ROW >= GRID_ROWS - 1 THEN CURSOR_ROW ELSE CURSOR_ROW + 1
    /\ UNCHANGED <<cells, heap, FORMULA_PTR, CURSOR_COL, EDIT_MODE, INPUT_BUF, INPUT_LEN, script, commits, cmds, arg, res>>

move_down == move_down_within(MaxRow)

\* CR in navigation mode.
start_edit ==
    /\ EDIT_MODE = 0
    /\ commits < MaxCommits
    /\ EDIT_MODE' = 1
    /\ INPUT_BUF' = load_cell_to_input(cells, heap, get_cell_addr(CURSOR_COL, CURSOR_ROW))
    /\ INPUT_LEN' = Len(INPUT_BUF')
    /\ script' \in EditScripts
    /\ UNCHANGED <<cells, heap, FORMULA_PTR, CURSOR_COL, CURSOR_ROW, commits, cmds, arg, res>>

\* '=' in navigation mode.
start_formula ==
    /\ EDIT_MODE = 0
    /\ commits < MaxCommits
    /\ EDIT_MODE' = 1
    /\ INPUT_BUF' = <<61>>
    /\ INPUT_LEN' = 1
    /\ script' \in FormulaScripts
    /\ UNCHANGED <<cells, heap, FORMULA_PTR, CURSOR_COL, CURSOR_ROW, commits, cmds, arg, res>>

\* A digit or '-' in navigation mode.
start_number ==
    /\ EDIT_MODE = 0
    /\ commits < MaxCommits
    /\ \E t \in NumberScripts :
        /\ INPUT_BUF' = <<t[1]>>
        /\ script' = Tail(t)
    /\ EDIT_MODE' = 1
    /\ INPUT_LEN' = 1
    /\ UNCHANGED <<cells, heap, FORMULA_PTR, CURSOR_COL, CURSOR_ROW, commits, cmds, arg, res>>

\* A printable key appended without the test of INPUT_LEN.
edit_mode_input_unchecked ==
    /\ EDIT_MODE # 0
    /\ script # <<>>
    /\ script' = Tail(script)
    /\ INPUT_BUF' = Append(INPUT_BUF, Head(script))
    /\ INPUT_LEN' = INPUT_LEN + 1
    /\ UNCHANGED <<cells, heap, FORMULA_PTR, CURSOR_COL, CURSOR_ROW, EDIT_MODE, commits, cmds, arg, res>>

\* A printable key in edit mode: appended unless the buffer holds 40.
edit_mode_input ==
    /\ EDIT_MODE # 0
    /\ script # <<>>
    /\ script' = Tail(script)
    /\ INPUT_BUF' = IF INPUT_LEN < INPUT_MAX THEN Append(INPUT_BUF, Head(script)) ELSE INPUT_BUF
    /\ INPUT_LEN' = IF INPUT_LEN < INPUT_MAX THEN INPUT_LEN + 1 ELSE INPUT_LEN
    /\ UNCHANGED <<cells, heap, FORMULA_PTR, CURSOR_COL, CURSOR_ROW, EDIT_MODE, commits, cmds, arg, res>>

\* DEL or BS in edit mode.
edit_backspace ==
    /\ EDIT_MODE # 0
    /\ script = <<>>
    /\ cmds < MaxCmds
    /\ cmds' = cmds + 1
    /\ INPUT_LEN' = IF INPUT_LEN = 0 THEN 0 ELSE INPUT_LEN - 1
    /\ INPUT_BUF' = SubSeq(INPUT_BUF, 1, INPUT_LEN')
    /\ UNCHANGED <<cells, heap, FORMULA_PTR, CURSOR_COL, CURSOR_ROW, EDIT_MODE, script, commits, arg, res>>

\* ESC in edit mode.
cancel_edit ==
    /\ EDIT_MODE # 0
    /\ EDIT_MODE' = 0
    /\ script' = <<>>
    /\ UNCHANGED <<cells, heap, FORMULA_PTR, CURSOR_COL, CURSOR_ROW, INPUT_BUF, INPUT_LEN, commits, cmds, arg, res>>

\* CR in edit mode: parse_and_store on the cell under the cursor.
confirm_edit ==
    /\ EDIT_MODE # 0
    /\ script = <<>>
    /\ \E addr \in {get_cell_addr(CURSOR_COL, CURSOR_ROW)} : \E r \in {parse_and_store(INPUT_BUF, INPUT_LEN, cells, heap, FORMULA_PTR, addr)} :
          /\ cells' = r.cells
          /\ heap' = r.heap
          /\ FORMULA_PTR' = r.FORMULA_PTR
          /\ res' = [op |-> "confirm_edit", text |-> INPUT_BUF, addr |-> addr, cells0 |-> cells, heap0 |-> heap, ptr0 |-> FORMULA_PTR, carry |-> r.carry, divz |-> r.divz]
    /\ EDIT_MODE' = 0
    /\ commits' = commits + 1
    /\ UNCHANGED <<CURSOR_COL, CURSOR_ROW, INPUT_BUF, INPUT_LEN, script, cmds, arg>>

\* '/' then 'C': the type byte of the cell under the cursor cleared.
cmd_clear ==
    /\ EDIT_MODE = 0
    /\ cmds < MaxCmds
    /\ cmds' = cmds + 1
    /\ LET addr == get_cell_addr(CURSOR_COL, CURSOR_ROW)
       IN cells' = SetCell(cells, addr, [CellAt(cells, addr) EXCEPT ![1] = 0])
    /\ res' = [op |-> "cmd_clear"]
    /\ UNCHANGED <<heap, FORMULA_PTR, CURSOR_COL, CURSOR_ROW, EDIT_MODE, INPUT_BUF, INPUT_LEN, script, commits, arg>>

\* '/' then '-' then a character: a RepeatFill cell, the character in byte 2.
cmd_repeat ==
    /\ EDIT_MODE = 0
    /\ cmds < MaxCmds
    /\ cmds' = cmds + 1
    /\ \E ch \in RepeatChars :
        LET addr == get_cell_addr(CURSOR_COL, CURSOR_ROW)
        IN cells' = SetCell(cells, addr, [CellAt(cells, addr) EXCEPT ![1] = CELL_REPEAT, ![3] = ch])
    /\ res' = [op |-> "cmd_repeat"]
    /\ UNCHANGED <<heap, FORMULA_PTR, CURSOR_COL, CURSOR_ROW, EDIT_MODE, INPUT_BUF, INPUT_LEN, script, commits, arg>>

\* '!': every Formula cell evaluated again.
do_recalc ==
    /\ EDIT_MODE = 0
    /\ cmds < MaxCmds
    /\ cmds' = cmds + 1
    /\ \E st \in {recalc_loop(cells, [heap |-> heap, m |-> Machine0], {a \in DOMAIN cells : cells[a][1] = CELL_FORMULA})} :
          /\ heap' = st.heap
          /\ res' = [op |-> "do_recalc", heap0 |-> heap, evals |-> st.m.evals, prev |-> IF res.op = "confirm_edit" THEN res ELSE NoRes]
    /\ UNCHANGED <<cells, FORMULA_PTR, CURSOR_COL, CURSOR_ROW, EDIT_MODE, INPUT_BUF, INPUT_LEN, script, commits, arg>>

Next ==
    \/ move_left
    \/ move_right
    \/ move_up
    \/ move_down
    \/ start_edit
    \/ start_formula
    \/ start_number
    \/ edit_mode_input
    \/ edit_backspace
    \/ cancel_edit
    \/ confirm_edit
    \/ cmd_clear
    \/ cmd_repeat
    \/ do_recalc

Spec == Init /\ [][Next]_vars

\* The sign byte and the four BCD bytes at address e.
Cached(cs, hp, e) == <<Peek(cs, hp, e)>> \o Peek4(cs, hp, e + 1)

\* C2: a formula whose '/' met a divisor of zero magnitude fails: carry, the
\* cell under the cursor becomes an Error cell and nothing is committed to
\* the heap (FORMULA_PTR stays).
C2_DivByZeroIsError ==
    (res.op = "confirm_edit" /\ res.divz)
        => (res.carry /\ Peek(cells, heap, res.addr) = CELL_ERROR /\ FORMULA_PTR = res.ptr0)

\* C3: do_recalc right after a formula was committed, nothing else written
\* in between, leaves the formula's cached sign byte and four BCD bytes as
\* parse_formula stored them.  The formula sits in column B and the typed
\* formulas refer to column A only, so that it does not refer to itself.
C3_RecalcIdempotent ==
    (res.op = "do_recalc" /\ res.prev.op = "confirm_edit" /\ res.prev.text # <<>> /\ res.prev.text[1] = 61 /\ ~res.prev.carry /\ res.prev.addr \in {get_cell_addr(1, 0), get_cell_addr(1, 1)})
        => LET e == res.prev.ptr0 + Len(res.prev.text) + 1
           IN Cached(cells, heap, e) = Cached(cells, res.heap0, e)

\* C10: the operand A1 is read by the type of cell A1: Empty gives +0.00,
\* Number its sign and magnitude, Formula the value cached after its text,
\* any other type (Error, RepeatFill, Label) a parse error, so that the
\* formula =A1 ends as an Error cell.
C10_ReferenceByType ==
    (res.op = "confirm_edit" /\ res.text = Asc(<<"=", "A", "1">>))
        => LET ref == CellAt(res.cells0, get_cell_addr(0, 0))
               got == Cached(cells, heap, res.ptr0 + 4)
           IN IF ref[1] = 0 THEN ~res.carry /\ got = <<0, 0, 0, 0, 0>>
              ELSE IF ref[1] = CELL_NUMBER THEN ~res.carry /\ got = SubSeq(ref, 2, 6)
              ELSE IF ref[1] = CELL_FORMULA THEN ~res.carry /\ got = Cached(res.cells0, res.heap0, FindEnd(res.cells0, res.heap0, ref[3] + 256 * ref[4]))
              ELSE res.carry /\ Peek(cells, heap, res.addr) = CELL_ERROR

(***************************************************************************)
(* The arithmetic routines on their own: the inputs are drawn in the       *)
(* initial state, each action runs one routine on them.                    *)
(***************************************************************************)
Signs == {0, 128}

BcdMags == {Bcd(n) : n \in {0, 1, 19, 200, 300, 400, 500, 1000, 3000, 7000, 10000, 1000000, 6000000}}

InitBcd ==
    /\ startup
    /\ arg \in [sa : Signs, a : BcdMags, sb : Signs, b : BcdMags]
    /\ res = NoRes

LoadOperands(sa, a, sb, b) == [Machine0 EXCEPT !.SIGN_ACCUM = sa, !.BCD_TEMP2 = a, !.SIGN_OP = sb, !.BCD_TEMP1 = b]

RunSignedAdd(sa, a, sb, b) ==
    LET m == signed_add(LoadOperands(sa, a, sb, b))
    IN [op |-> "signed_add", sign |-> m.SIGN_ACCUM, mag |-> m.BCD_TEMP1, carry |-> m.carry]

ApplySignedAdd ==
    /\ res.op = "none"
    /\ res' = RunSignedAdd(arg.sa, arg.a, arg.sb, arg.b)
    /\ UNCHANGED <<progVars, arg>>

ApplyBcdMul ==
    /\ res.op = "none"
    /\ res' = LET m == bcd_mul([Machine0 EXCEPT !.BCD_TEMP1 = arg.a, !.BCD_TEMP2 = arg.b])
              IN [op |-> "bcd_mul", sign |-> 0, mag |-> m.BCD_TEMP1, carry |-> m.carry]
    /\ UNCHANGED <<progVars, arg>>

\* The number of subtractions bcd_div_loop makes for a / b.
DivIters(a, b) == IF BcdVal(b) = 0 THEN 0 ELSE ((BcdVal(a) % 1000000) * 100) \div BcdVal(b)

ApplyBcdDiv ==
    /\ res.op = "none"
    /\ DivIters(arg.a, arg.b) <= MaxDivIters
    /\ res' = LET m == bcd_div([Machine0 EXCEPT !.BCD_TEMP1 = arg.a, !.BCD_TEMP2 = arg.b])
              IN [op |-> "bcd_div", sign |-> 0, mag |-> m.BCD_TEMP1, carry |-> m.carry]
    /\ UNCHANGED <<progVars, arg>>

NextBcd == ApplySignedAdd \/ ApplyBcdMul \/ ApplyBcdDiv

SpecBcd == InitBcd /\ [][NextBcd]_vars

\* Reference arithmetic on integers of hundredths.
Abs(n) == IF n < 0 THEN 0 - n ELSE n

SVal(s, mag) == IF s = 128 THEN 0 - BcdVal(mag) ELSE BcdVal(mag)

\* floor(a * b / 100) modulo 10^8, computed in parts that stay small.
MulRef(a, b) ==
    LET ah == a \div 10000
        al == a % 10000
        bh == b \div 10000
        bl == b % 10000
    IN (((ah * bh) % 100) * 1000000 + ((ah * bl + al * bh) % 1000000) * 100 + ((al * bl) \div 100)) % 100000000

\* floor(100 * a / b).
DivRef(a, b) == 100 * (a \div b) + ((100 * (a % b)) \div b)

\* A sign byte and magnitude as the program stores them: zero is non-negative.
Canonical(s, mag) == s = 128 => BcdVal(mag) # 0

\* C4: signed_add returns the true signed sum of (sa, a) and (sb, b) when it
\* fits in 8 digits: magnitude |sum|, sign of the sum, and sign 0x00 for a
\* zero sum.
C4_SignedAddTrueSum ==
    (res.op = "signed_add" /\ Canonical(arg.sa, arg.a) /\ Canonical(arg.sb, arg.b))
        => LET sum == SVal(arg.sa, arg.a) + SVal(arg.sb, arg.b)
           IN Abs(sum) < 100000000 => (res.mag = Bcd(Abs(sum)) /\ res.sign = (IF sum < 0 THEN 128 ELSE 0))

\* C5: signed_add is commutative: swapping the two operands gives the same
\* sign and magnitude, also for equal magnitudes of different signs.
C5_SignedAddCommutative ==
    (res.op = "signed_add" /\ Canonical(arg.sa, arg.a) /\ Canonical(arg.sb, arg.b))
        => LET sw == RunSignedAdd(arg.sb, arg.b, arg.sa, arg.a)
           IN res.sign = sw.sign /\ res.mag = sw.mag

\* C6: bcd_mul returns floor(a * b / 100) truncated to its low 8 digits.
C6_BcdMulProduct ==
    res.op = "bcd_mul" => res.mag = Bcd(MulRef(BcdVal(arg.a), BcdVal(arg.b)))

\* C7: bcd_div returns floor(100 * a / b) when b is not zero and the
\* quotient fits in 8 digits.
C7_BcdDivQuotient ==
    (res.op = "bcd_div" /\ BcdVal(arg.b) # 0 /\ DivRef(BcdVal(arg.a), BcdVal(arg.b)) < 100000000)
        => (res.mag = Bcd(DivRef(BcdVal(arg.a), BcdVal(arg.b))) /\ ~res.carry)

\* The worked examples of C4, C6 and C7 are computed as the claims say.
BcdExamples ==
    /\ (res.op = "signed_add" /\ arg = [sa |-> 0, a |-> Bcd(10000), sb |-> 128, b |-> Bcd(3000)]) => (res.sign = 0 /\ res.mag = Bcd(7000))
    /\ (res.op = "bcd_mul" /\ arg.a = Bcd(200) /\ arg.b = Bcd(300)) => res.mag = Bcd(600)
    /\ (res.op = "bcd_div" /\ arg.a = Bcd(1000) /\ arg.b = Bcd(400)) => res.mag = Bcd(250)

(***************************************************************************)
(* The two conversions on their own: a text is drawn in the initial state, *)
(* ascii_to_bcd converts it, bcd_to_ascii writes the result to INPUT_BUF.  *)
(***************************************************************************)
MaxTextLen == 4

ConvAlphabet == {48, 55, 46}

ShortTexts == UNION {[1..n -> ConvAlphabet] : n \in 1..MaxTextLen}

LongTexts == {Asc(<<"1", "2", "3", ".", "4", "5">>), Asc(<<"0", ".", "5">>), Asc(<<"1", "2", "3", "4", "5", "6", ".", "7", "8">>), Asc(<<"9", "9", "9", "9", "9", "9", ".", "9", "9">>), Asc(<<"1", "2", "3", "4", "5", "6", "7">>), Asc(<<"1", "2", "3", "4", "5", "6", "7", "8">>), Asc(<<"1", "2", "3", "4", "5", "6", "7", ".", "8">>)}

ConvTexts == ShortTexts \cup LongTexts \cup {<<45>> \o t : t \in ShortTexts \cup LongTexts}

InitConv ==
    /\ startup
    /\ arg \in [text : ConvTexts]
    /\ res = NoRes

ApplyAsciiToBcd ==
    /\ res.op = "none"
    /\ res' = [op |-> "ascii_to_bcd", mag |-> ascii_to_bcd(arg.text, 1)]
    /\ UNCHANGED <<progVars, arg>>

ApplyBcdToAscii ==
    /\ res.op = "ascii_to_bcd"
    /\ INPUT_BUF' = bcd_to_ascii(res.mag)
    /\ INPUT_LEN' = 9
    /\ res' = [res EXCEPT !.op = "bcd_to_ascii"]
    /\ UNCHANGED <<cells, heap, FORMULA_PTR, CURSOR_COL, CURSOR_ROW, EDIT_MODE, script, commits, cmds, arg>>

NextConv == ApplyAsciiToBcd \/ ApplyBcdToAscii

SpecConv == InitConv /\ [][NextConv]_vars

\* Reference reading of a decimal text: [-] digits [. digits].
Unsigned(t) == IF Len(t) > 0 /\ t[1] = 45 THEN Tail(t) ELSE t

DotAt(t) == IF \E i \in 1..Len(t) : t[i] = 46 THEN CHOOSE i \in 1..Len(t) : t[i] = 46 ELSE Len(t) + 1

WholeDigits(t) == SubSeq(Unsigned(t), 1, DotAt(Unsigned(t)) - 1)

FracDigits(t) == SubSeq(Unsigned(t), DotAt(Unsigned(t)) + 1, Len(Unsigned(t)))

WellFormed(t) ==
    /\ \A i \in 1..Len(WholeDigits(t)) : IsDigit(WholeDigits(t)[i])
    /\ \A i \in 1..Len(FracDigits(t)) : IsDigit(FracDigits(t)[i])
    /\ Len(WholeDigits(t)) + Len(FracDigits(t)) >= 1

RECURSIVE Num(_)
Num(ds) == IF Len(ds) = 0 THEN 0 ELSE Num(SubSeq(ds, 1, Len(ds) - 1)) * 10 + (ds[Len(ds)] - 48)

\* The magnitude of a well-formed text with at most 2 fractional digits, in hundredths.
TextVal(t) == Num(WholeDigits(t)) * 100 + (IF Len(FracDigits(t)) = 1 THEN Num(FracDigits(t)) * 10 ELSE Num(FracDigits(t)))

\* The text has the fixed format DDDDDD.DD.
FixedFormat(t) == Len(t) = 9 /\ t[7] = 46 /\ \A i \in {1, 2, 3, 4, 5, 6, 8, 9} : IsDigit(t[i])

RoundTrips(t) == FixedFormat(INPUT_BUF) /\ INPUT_LEN = 9 /\ TextVal(INPUT_BUF) = TextVal(t)

\* C8 as stated: every decimal text with an optional '-', at most 8 digits
\* in total and at most 2 fractional digits comes back from ascii_to_bcd and
\* bcd_to_ascii as the text DDDDDD.DD of the same magnitude.
C8_RoundTripEightDigits ==
    (res.op = "bcd_to_ascii" /\ WellFormed(arg.text) /\ Len(FracDigits(arg.text)) <= 2 /\ Len(WholeDigits(arg.text)) + Len(FracDigits(arg.text)) <= 8)
        => RoundTrips(arg.text)

\* C8 amended: every decimal text with an optional '-', at most 6 whole
\* digits and at most 2 fractional digits comes back as the text DDDDDD.DD
\* of the same magnitude; '123.45' gives 00012345, '0.5' 00000050, '7' 00000700.
C8_RoundTripSixWholeDigits ==
    /\ (res.op = "bcd_to_ascii" /\ WellFormed(arg.text) /\ Len(FracDigits(arg.text)) <= 2 /\ Len(WholeDigits(arg.text)) <= 6)
           => (RoundTrips(arg.text) /\ res.mag = Bcd(TextVal(arg.text)))
    /\ (res.op # "none" /\ arg.text = Asc(<<"1", "2", "3", ".", "4", "5">>)) => res.mag = <<0, 1, 35, 69>>
    /\ (res.op # "none" /\ arg.text = Asc(<<"0", ".", "5">>)) => res.mag = <<0, 0, 0, 80>>
    /\ (res.op # "none" /\ arg.text = <<55>>) => res.mag = <<0, 0, 7, 0>>

\* A negative text with whole and fractional digits has made the round trip.
C8_Witness ==
    res.op = "bcd_to_ascii" /\ arg.text = Asc(<<"-", "1", "2", "3", "4", "5", "6", ".", "7", "8">>) /\ INPUT_BUF = Asc(<<"1", "2", "3", "4", "5", "6", ".", "7", "8">>)

(***************************************************************************)
(* The evaluator on its own: the sheet holds A1 = 3.00 and A2 = 4.00 (the  *)
(* state after the keys 3 CR j 4 CR), an expression is drawn in the        *)
(* initial state and eval_expr evaluates it.                               *)
(***************************************************************************)
NumberCell(sign, mag) == <<CELL_NUMBER, sign>> \o mag

ExprSheet == (get_cell_addr(0, 0) :> NumberCell(0, Bcd(300))) @@ (get_cell_addr(0, 1) :> NumberCell(0, Bcd(400)))

OperandToks == {<<"A", "1">>, <<"A", "2">>, <<"2">>, <<"-", "5">>, <<"0">>}

OperatorToks == {<<"+">>, <<"-">>, <<"*">>, <<"/">>}

FuncToks == {<<"@", "S", "U", "M">>, <<"@", "A", "V", "G">>, <<"@", "M", "I", "N">>, <<"@", "M", "A", "X">>, <<"@", "C", "O", "U", "N", "T">>}

RangeTok == <<"(", "A", "1", ":", "A", "2", ")">>

ChainArgs == {[kind |-> "chain", toks |-> <<x, o1, y, o2, z>>, text |-> Asc(x \o o1 \o y \o o2 \o z)] : x \in OperandToks, o1 \in OperatorToks, y \in OperandToks, o2 \in OperatorToks, z \in OperandToks}

FuncArgs == {[kind |-> "func", toks |-> <<x, o, f \o RangeTok>>, text |-> Asc(x \o o \o f \o RangeTok)] : x \in OperandToks, o \in OperatorToks, f \in FuncToks}

InitExpr ==
    /\ cells = ExprSheet
    /\ heap = EmptyMem
    /\ FORMULA_PTR = SCRATCH
    /\ CURSOR_COL = 0
    /\ CURSOR_ROW = 1
    /\ EDIT_MODE = 0
    /\ INPUT_BUF = <<>>
    /\ INPUT_LEN = 0
    /\ script = <<>>
    /\ commits = 0
    /\ cmds = 0
    /\ arg \in ChainArgs \cup FuncArgs
    /\ res = NoRes

RunEvalExpr(txt, cs, hp) ==
    LET m == eval_expr(Machine0, txt, 1, cs, hp)
    IN [op |-> "eval_expr", carry |-> m.carry, sign |-> m.SIGN_ACCUM, mag |-> m.BCD_TEMP1, divz |-> m.divz]

ApplyEvalExpr ==
    /\ res.op = "none"
    /\ res' = RunEvalExpr(arg.text, cells, heap)
    /\ UNCHANGED <<progVars, arg>>

NextExpr == ApplyEvalExpr

SpecExpr == InitExpr /\ [][NextExpr]_vars

\* An operand on its own, as parse_operand reads it from the sheet.
OperandOf(tok, cs, hp) ==
    LET m == parse_operand([Machine0 EXCEPT !.TEMP2 = 1], Asc(tok), cs, hp)
    IN [sign |-> m.TEMP1, mag |-> m.BCD_TEMP1]

\* One binary operation of the evaluator on an accumulator and an operand.
BinOp(o, acc, v) ==
    LET m == eval_dispatch([Machine0 EXCEPT !.SIGN_ACCUM = acc.sign, !.BCD_TEMP2 = acc.mag, !.BCD_ACCUM = acc.mag \o Zero4, !.SIGN_OP = v.sign, !.BCD_TEMP1 = v.mag, !.TEMP1_1 = Chr[o[1]]])
    IN [sign |-> m.SIGN_ACCUM, mag |-> m.BCD_TEMP1]

\* Signed decimal arithmetic on hundredths, quotients and products truncated.
RefOp(o, u, v) ==
    IF o = <<"+">> THEN u + v
    ELSE IF o = <<"-">> THEN u - v
    ELSE IF o = <<"*">> THEN (IF (u < 0) = (v < 0) THEN 1 ELSE 0 - 1) * ((Abs(u) * Abs(v)) \div 100)
    ELSE (IF (u < 0) = (v < 0) THEN 1 ELSE 0 - 1) * ((100 * Abs(u)) \div Abs(v))

TokVal(tok) == LET v == OperandOf(tok, ExprSheet, EmptyMem) IN SVal(v.sign, v.mag)

\* C1: eval_expr evaluates x op1 y op2 z strictly left to right: the result
\* is (x op1 y) op2 z, each operation being the evaluator's own; where no
\* divisor is zero it is also the value of ordinary signed arithmetic taken
\* in that order; =A1+A2*2 with A1 = 3.00, A2 = 4.00 gives 14.00, not 11.00.
C1_LeftToRight ==
    (res.op = "eval_expr" /\ arg.kind = "chain")
        => LET t == arg.toks
               x == OperandOf(t[1], cells, heap)
               y == OperandOf(t[3], cells, heap)
               z == OperandOf(t[5], cells, heap)
               want == BinOp(t[4], BinOp(t[2], x, y), z)
           IN /\ res.sign = want.sign
              /\ res.mag = want.mag
              /\ ((t[2] = <<"/">> => TokVal(t[3]) # 0) /\ (t[4] = <<"/">> => TokVal(t[5]) # 0))
                     => (~res.carry /\ SVal(res.sign, res.mag) = RefOp(t[4], RefOp(t[2], TokVal(t[1]), TokVal(t[3])), TokVal(t[5])))
              /\ arg.text = Asc(<<"A", "1", "+", "A", "2", "*", "2">>) => (res.sign = 0 /\ res.mag = Bcd(1400))

\* A1+A2*2 has been evaluated to +14.00.
C1_Witness ==
    res.op = "eval_expr" /\ arg.text = Asc(<<"A", "1", "+", "A", "2", "*", "2">>) /\ ~res.carry /\ res.sign = 0 /\ res.mag = <<0, 0, 20, 0>>

\* C9: x op @F(range) applies the operator read between the two operands to
\* x and the function's value, as if the value had been a numeric literal.
C9_FuncAsSecondOperand ==
    (res.op = "eval_expr" /\ arg.kind = "func")
        => LET t == arg.toks
               x == OperandOf(t[1], cells, heap)
               f == OperandOf(t[3], cells, heap)
               want == BinOp(t[2], x, f)
           IN ~res.carry /\ res.sign = want.sign /\ res.mag = want.mag

(***************************************************************************)
(* get_cell_addr on its own: a column and a row of the grid are drawn in   *)
(* the initial state, the action computes the address.                     *)
(***************************************************************************)
InitAddr ==
    /\ startup
    /\ arg \in [col : 0..(GRID_COLS - 1), row : 0..(GRID_ROWS - 1)]
    /\ res = NoRes

ApplyGetCellAddr ==
    /\ res.op = "none"
    /\ res' = [op |-> "get_cell_addr", addr |-> get_cell_addr(arg.col, arg.row)]
    /\ UNCHANGED <<progVars, arg>>

NextAddr == ApplyGetCellAddr

SpecAddr == InitAddr /\ [][NextAddr]_vars

\* The position of (col, row) in row-major order.
RowMajor(col, row) == row * GRID_COLS + col

\* C20: get_cell_addr(col, row) = 0x2000 + (row * 16 + col) * 6 for every
\* column in [0,16) and row in [0,64), inside the 16-bit range and the cell
\* area; it is injective and strictly increasing in row-major order;
\* (0,0) is at 0x2000, (1,0) at 0x2006 and (0,1) at 0x2060.
C20_CellAddress ==
    res.op = "get_cell_addr"
        => /\ res.addr = 8192 + (arg.row * 16 + arg.col) * 6
           /\ res.addr + CELL_SIZE - 1 <= 14335
           /\ \A c \in 0..(GRID_COLS - 1), r \in 0..(GRID_ROWS - 1) :
                  /\ RowMajor(c, r) < RowMajor(arg.col, arg.row) => get_cell_addr(c, r) < res.addr
                  /\ get_cell_addr(c, r) = res.addr => (c = arg.col /\ r = arg.row)
           /\ (arg.col = 0 /\ arg.row = 0) => res.addr = 8192
           /\ (arg.col = 1 /\ arg.row = 0) => res.addr = 8198
           /\ (arg.col = 0 /\ arg.row = 1) => res.addr = 8288

\* The address of the last cell, P64, has been computed.
C20_Witness == res.op = "get_cell_addr" /\ arg.col = 15 /\ arg.row = 63 /\ res.addr = 14330

(***************************************************************************)
(* The range functions of parse_func on committed sheets.                  *)
(***************************************************************************)
Sheet0 == [cells |-> EmptyMem, heap |-> EmptyMem, FORMULA_PTR |-> SCRATCH, carry |-> FALSE, divz |-> FALSE]

\* The text txt committed with CR in the cell (col, row) of sheet st.
EnterText(st, col, row, txt) == parse_and_store(txt, Len(txt), st.cells, st.heap, st.FORMULA_PTR, get_cell_addr(col, row))

Enter(st, col, row, keys) == EnterText(st, col, row, Asc(keys))

\* A1 = 1.00, A2 = 2.00, A3 empty.
SheetTwo == Enter(Enter(Sheet0, 0, 0, <<"1">>), 0, 1, <<"2">>)

\* A1 = 1.50, A2 = -4.00, A3 the label "hi, B1 the formula =A1+A2, B2 an
\* Error cell (7 overwritten by x), B3 empty.
SheetMixed == Enter(Enter(Enter(Enter(Enter(Enter(Sheet0, 0, 0, <<"1", ".", "5">>), 0, 1, <<"-", "4">>), 0, 2, <<"\"", "h", "i">>), 1, 0, <<"=", "A", "1", "+", "A", "2">>), 1, 1, <<"7">>), 1, 1, <<"x">>)

\* Every cell of the grid a Number: the k-th cell in address order holds
\* (k + 1) / 100, negative when k is a multiple of 3.
SheetFull ==
    [cells |-> [a \in {get_cell_addr(c, r) : c \in 0..(GRID_COLS - 1), r \in 0..(GRID_ROWS - 1)} |-> NumberCell(IF ((a - CELL_DATA) \div CELL_SIZE) % 3 = 0 THEN 128 ELSE 0, Bcd(((a - CELL_DATA) \div CELL_SIZE) + 1))],
     heap |-> EmptyMem, FORMULA_PTR |-> SCRATCH, carry |-> FALSE, divz |-> FALSE]

FuncSheets == ("empty" :> Sheet0) @@ ("two" :> SheetTwo) @@ ("mixed" :> SheetMixed) @@ ("full" :> SheetFull)

FuncNames == ("SUM" :> <<83, 85, 77>>) @@ ("AVG" :> <<65, 86, 71>>) @@ ("MIN" :> <<77, 73, 78>>) @@ ("MAX" :> <<77, 65, 88>>) @@ ("COUNT" :> <<67, 79, 85, 78, 84>>)

\* Ranges (col1, row1)-(col2, row2): the small ones of A1:B3, some large
\* ones up to the whole grid A1:P64, and A1:Q1, whose second column letter
\* pf_parse_paren accepts.
SmallRects == {r \in [c1 : 0..MaxRectCol, r1 : 0..MaxRectRow, c2 : 0..MaxRectCol, r2 : 0..MaxRectRow] : r.c1 <= r.c2 /\ r.r1 <= r.r2}

LargeRects == {[c1 |-> 0, r1 |-> 0, c2 |-> 1, r2 |-> 49], [c1 |-> 0, r1 |-> 0, c2 |-> 0, r2 |-> 63], [c1 |-> 0, r1 |-> 0, c2 |-> 1, r2 |-> 63], [c1 |-> 0, r1 |-> 0, c2 |-> 15, r2 |-> 15], [c1 |-> 2, r1 |-> 3, c2 |-> 4, r2 |-> 40], [c1 |-> 0, r1 |-> 0, c2 |-> 15, r2 |-> 63], [c1 |-> 0, r1 |-> 0, c2 |-> 16, r2 |-> 0]}

\* The decimal digits of n as characters.
Dec(n) == IF n < 10 THEN <<48 + n>> ELSE <<48 + (n \div 10), 48 + (n % 10)>>

\* "@NAME(" col1 row1 ":" col2 row2 ")" for the range r.
RangeText(f, r) == <<64>> \o FuncNames[f] \o <<40, 65 + r.c1>> \o Dec(r.r1 + 1) \o <<58, 65 + r.c2>> \o Dec(r.r2 + 1) \o <<41>>

RangeArgs == {[kind |-> "range", func |-> f, sheet |-> s, rect |-> r, text |-> RangeText(f, r)] : f \in DOMAIN FuncNames, s \in DOMAIN FuncSheets, r \in SmallRects \cup LargeRects}

\* "@NAME(A1:A0)": the second row number is 0, which the row loop takes and
\* decrements to 255.
ZeroRowArgs == {[kind |-> "range", func |-> f, sheet |-> s, rect |-> [c1 |-> 0, r1 |-> 0, c2 |-> 0, r2 |-> 255], text |-> <<64>> \o FuncNames[f] \o <<40, 65, 49, 58, 65, 48, 41>>] : f \in DOMAIN FuncNames, s \in {"empty", "mixed"}}

InitFunc ==
    /\ arg \in RangeArgs \cup ZeroRowArgs
    /\ cells = FuncSheets[arg.sheet].cells
    /\ heap = FuncSheets[arg.sheet].heap
    /\ FORMULA_PTR = FuncSheets[arg.sheet].FORMULA_PTR
    /\ CURSOR_COL = 2
    /\ CURSOR_ROW = 0
    /\ EDIT_MODE = 0
    /\ INPUT_BUF = <<>>
    /\ INPUT_LEN = 0
    /\ script = <<>>
    /\ commits = 0
    /\ cmds = 0
    /\ res = NoRes

\* eval_expr on the function alone, as in the formula "=@SUM(A1:A3)".
ApplyParseFunc ==
    /\ res.op = "none"
    /\ \E m \in {eval_expr(Machine0, arg.text, 1, cells, heap)} :
           res' = [op |-> "parse_func", carry |-> m.carry, sign |-> m.SIGN_ACCUM, mag |-> m.BCD_TEMP1, count |-> m.FUNC_COUNT, calls |-> m.calls, walking |-> m.walking, hang |-> m.hang]
    /\ UNCHANGED <<progVars, arg>>

NextFunc == ApplyParseFunc

SpecFunc == InitFunc /\ [][NextFunc]_vars

\* The cells of range r in column-major order, numbered from 0.
RectHeight(r) == r.r2 - r.r1 + 1

RectSize(r) == (r.c2 - r.c1 + 1) * RectHeight(r)

RectCell(r, i) == <<r.c1 + (i \div RectHeight(r)), r.r1 + (i % RectHeight(r))>>

\* The stored type of the cell (col, row) and, for a Number or Formula cell,
\* its value in hundredths: a Number cell holds it, a Formula cell points to
\* its text, followed by the sign and the four BCD bytes.
TypeOf(cs, cr) == CellAt(cs, get_cell_addr(cr[1], cr[2]))[1]

IsNumeric(cs, cr) == TypeOf(cs, cr) \in {CELL_NUMBER, CELL_FORMULA}

CachedAt(cs, hp, ptr) == SVal(Peek(cs, hp, ptr + Len(HeapText(cs, hp, ptr)) + 1), Peek4(cs, hp, ptr + Len(HeapText(cs, hp, ptr)) + 2))

NumericValue(cs, hp, cr) ==
    IF TypeOf(cs, cr) = CELL_NUMBER THEN SVal(CellAt(cs, get_cell_addr(cr[1], cr[2]))[2], SubSeq(CellAt(cs, get_cell_addr(cr[1], cr[2])), 3, 6))
    ELSE IF TypeOf(cs, cr) = CELL_FORMULA THEN CachedAt(cs, hp, CellAt(cs, get_cell_addr(cr[1], cr[2]))[3] + 256 * CellAt(cs, get_cell_addr(cr[1], cr[2]))[4])
    ELSE 0

RECURSIVE RectSum(_, _, _, _, _)
\* The sum of the values of the cells numbered lo..hi of range r.
RectSum(cs, hp, r, lo, hi) ==
    IF lo > hi THEN 0
    ELSE IF lo = hi THEN NumericValue(cs, hp, RectCell(r, lo))
    ELSE RectSum(cs, hp, r, lo, (lo + hi) \div 2) + RectSum(cs, hp, r, ((lo + hi) \div 2) + 1, hi)

RectCount(cs, r) == Cardinality({i \in 0..(RectSize(r) - 1) : IsNumeric(cs, RectCell(r, i))})

InGrid(r) == r.c2 < GRID_COLS /\ r.r2 < GRID_ROWS

\* C11: @SUM over a range inside the grid calls get_cell_addr once for every
\* cell of the inclusive rectangle, column by column and row by row within
\* a column, and returns without carry the signed sum of the values of
\* exactly the Number and Formula cells; @SUM(A1:A3) with A1 = 1.00,
\* A2 = 2.00 and A3 empty is 3.00.
C11_SumOverRange ==
    (res.op = "parse_func" /\ arg.func = "SUM" /\ InGrid(arg.rect))
        => /\ ~res.carry /\ ~res.walking
           /\ Len(res.calls) = RectSize(arg.rect)
           /\ \A i \in 1..Len(res.calls) : res.calls[i] = RectCell(arg.rect, i - 1)
           /\ ValidBcd(res.mag)
           /\ SVal(res.sign, res.mag) = RectSum(cells, heap, arg.rect, 0, RectSize(arg.rect) - 1)
           /\ res.count = RectCount(cells, arg.rect)
           /\ (arg.sheet = "two" /\ arg.rect = [c1 |-> 0, r1 |-> 0, c2 |-> 0, r2 |-> 2]) => (res.sign = 0 /\ res.mag = Bcd(300))

\* @SUM has run over a range of the mixed sheet that holds Number, Formula,
\* Label, Error and empty cells, two of them negative.
C11_Witness ==
    /\ res.op = "parse_func" /\ arg.func = "SUM" /\ arg.sheet = "mixed"
    /\ arg.rect = [c1 |-> 0, r1 |-> 0, c2 |-> 1, r2 |-> 2]
    /\ {TypeOf(cells, RectCell(arg.rect, i)) : i \in 0..5} = {0, CELL_NUMBER, CELL_FORMULA, CELL_ERROR, CELL_LABEL}
    /\ res.count = 3
    /\ res.sign = 128 /\ res.mag = Bcd(500)

\* The quotient |sum| / count in hundredths, truncated.
AvgRef(sum, count) == Abs(sum) \div count

\* C12: @AVG over a range returns the signed sum of its Number and Formula
\* cells divided by their count, to two decimals, with the sign of the sum,
\* for every count from 1 to 1024; zero with a positive sign when the count
\* is zero; over A1 = 1.00, A2 = 2.00 and an empty A3 it is 1.50.
C12_AvgOverRange ==
    (res.op = "parse_func" /\ arg.func = "AVG" /\ InGrid(arg.rect))
        => /\ ~res.carry /\ ~res.hang
           /\ ValidBcd(res.mag)
           /\ RectCount(cells, arg.rect) = 0 => (res.sign = 0 /\ res.mag = Zero4)
           /\ RectCount(cells, arg.rect) > 0 => BcdVal(res.mag) = AvgRef(RectSum(cells, heap, arg.rect, 0, RectSize(arg.rect) - 1), RectCount(cells, arg.rect))
           /\ RectSum(cells, heap, arg.rect, 0, RectSize(arg.rect) - 1) < 0 => res.sign = 128
           /\ RectSum(cells, heap, arg.rect, 0, RectSize(arg.rect) - 1) > 0 => res.sign = 0
           /\ (arg.sheet = "two" /\ arg.rect = [c1 |-> 0, r1 |-> 0, c2 |-> 0, r2 |-> 2]) => (res.sign = 0 /\ res.mag = Bcd(150))

\* C13: @COUNT over a range returns n.00 with a positive sign, as valid
\* BCD, where n is the number of Number and Formula cells of the range, for
\* every n from 0 to 1024.
C13_CountOverRange ==
    (res.op = "parse_func" /\ arg.func = "COUNT" /\ InGrid(arg.rect))
        => /\ ~res.carry
           /\ res.sign = 0
           /\ ValidBcd(res.mag)
           /\ BcdVal(res.mag) = 100 * RectCount(cells, arg.rect)

\* C14: @MIN and @MAX over a range without a Number or Formula cell return
\* the zero magnitude with a positive sign.
C14_MinMaxOfNothing ==
    (res.op = "parse_func" /\ arg.func \in {"MIN", "MAX"} /\ InGrid(arg.rect) /\ RectCount(cells, arg.rect) = 0)
        => (~res.carry /\ res.sign = 0 /\ res.mag = Zero4)

\* C15: every call of get_cell_addr is made with a column in [0,16) and a
\* row in [0,64), so that the six bytes of the cell lie in 0x2000..0x37FF.
C15_CellAddrInBounds ==
    res.op = "parse_func"
        => \A i \in 1..Len(res.calls) :
               /\ res.calls[i][1] < GRID_COLS /\ res.calls[i][2] < GRID_ROWS
               /\ get_cell_addr(res.calls[i][1], res.calls[i][2]) + CELL_SIZE - 1 <= 14335

(***************************************************************************)
(* The program on a sheet whose heap is nearly full.                       *)
(***************************************************************************)
\* The label "hi as parse_label stores it: the text and its NUL.
HiEntry == <<34, 104, 105, 0>>

\* The state after the label "hi has been committed in each of the first
\* HeapLabels cells from A33 on: the k-th of them points to SCRATCH + 4k.
FirstLabelCell == get_cell_addr(0, 32)

LabelSheet ==
    [cells |-> [a \in {FirstLabelCell + CELL_SIZE * k : k \in 0..(HeapLabels - 1)} |-> <<CELL_LABEL, 0, (SCRATCH + 4 * ((a - FirstLabelCell) \div CELL_SIZE)) % 256, (SCRATCH + 4 * ((a - FirstLabelCell) \div CELL_SIZE)) \div 256, 0, 0>>],
     heap |-> [a \in SCRATCH..(SCRATCH + 4 * HeapLabels - 1) |-> HiEntry[((a - SCRATCH) % 4) + 1]],
     FORMULA_PTR |-> SCRATCH + 4 * HeapLabels]

InitHeap ==
    /\ cells = LabelSheet.cells
    /\ heap = LabelSheet.heap
    /\ FORMULA_PTR = LabelSheet.FORMULA_PTR
    /\ CURSOR_COL = 0
    /\ CURSOR_ROW = 0
    /\ EDIT_MODE = 0
    /\ INPUT_BUF = <<>>
    /\ INPUT_LEN = 0
    /\ script = <<>>
    /\ commits = 0
    /\ cmds = 0
    /\ arg = <<>>
    /\ res = NoRes

SpecHeap == InitHeap /\ [][Next]_vars

\* C16: FORMULA_PTR stays within the heap, from SCRATCH up to the scratch
\* variables at HEAP_END, no byte of an entry is written at HEAP_END or
\* above, and a commit is rejected, with nothing written, when its
\* entry does not fit.
C16_HeapBounded ==
    /\ SCRATCH <= FORMULA_PTR /\ FORMULA_PTR <= HEAP_END
    /\ \A a \in DOMAIN heap : a < HEAP_END
    /\ (res.op = "confirm_edit" /\ res.text # <<>> /\ res.text[1] \in {34, 61} /\ res.ptr0 + Len(res.text) + (IF res.text[1] = 61 THEN 6 ELSE 1) > HEAP_END)
           => (FORMULA_PTR = res.ptr0 /\ heap = res.heap0 /\ cells = res.cells0)

(***************************************************************************)
(* The heap of formula and label entries under the program's actions.      *)
(***************************************************************************)
RECURSIVE HeapTextBytes(_, _, _)
\* The addresses of the source-text bytes, NUL included, of the entries
\* committed between p and fp: a formula entry ('=' first) is followed by
\* its five cached bytes, a label entry by the next entry.
HeapTextBytes(hp, p, fp) ==
    IF p >= fp THEN {}
    ELSE (p..(p + Len(HeapText(EmptyMem, hp, p)))) \cup HeapTextBytes(hp, p + Len(HeapText(EmptyMem, hp, p)) + 1 + (IF hp[p] = 61 THEN 5 ELSE 0), fp)

C17_Step ==
    /\ FORMULA_PTR' >= FORMULA_PTR
    /\ \A a \in HeapTextBytes(heap, SCRATCH, FORMULA_PTR) : a \in DOMAIN heap' /\ heap'[a] = heap[a]
    /\ (commits' = commits + 1 /\ INPUT_LEN > 0 /\ INPUT_BUF[1] = 61 /\ ~res'.carry) => FORMULA_PTR' = FORMULA_PTR + INPUT_LEN + 1 + 5
    /\ (commits' = commits + 1 /\ INPUT_LEN > 0 /\ INPUT_BUF[1] = 34) => FORMULA_PTR' = FORMULA_PTR + INPUT_LEN + 1

MalformedNumbers == {<<51, 120>>, <<49, 46, 50, 46, 51>>, <<49, 50, 97, 52>>, <<45>>, <<120>>, <<49, 45>>, <<45, 45, 49>>, <<46, 53>>, <<49, 46, 46>>}

\* =Q1  =A1B  =1A  =$Q$1  =a1b2
MalformedCellRefs == {<<61, 81, 49>>, <<61, 65, 49, 66>>, <<61, 49, 65>>, <<61, 36, 81, 36, 49>>, <<61, 97, 49, 98, 50>>}

\* =@SUM(A1  =@SUM(A1:)  =@SUM A1:A2  =@SUM(A1-A2)  =@SUM(A1:A2  =@SUN(A1:A2)  =@SUM(1A:A2)  =@(A1:A2)
MalformedRanges == {<<61, 64, 83, 85, 77, 40, 65, 49>>, <<61, 64, 83, 85, 77, 40, 65, 49, 58, 41>>, <<61, 64, 83, 85, 77, 32, 65, 49, 58, 65, 50>>, <<61, 64, 83, 85, 77, 40, 65, 49, 45, 65, 50, 41>>, <<61, 64, 83, 85, 77, 40, 65, 49, 58, 65, 50>>, <<61, 64, 83, 85, 78, 40, 65, 49, 58, 65, 50, 41>>, <<61, 64, 83, 85, 77, 40, 49, 65, 58, 65, 50, 41>>, <<61, 64, 40, 65, 49, 58, 65, 50, 41>>}

\* =1%2  =A1^2  =1 2  =1=2  =A1&A2
UnknownOperators == {<<61, 49, 37, 50>>, <<61, 65, 49, 94, 50>>, <<61, 49, 32, 50>>, <<61, 49, 61, 50>>, <<61, 65, 49, 38, 65, 50>>}

\* 5  -2.5  =A1+1  =@SUM(A1:A2)  "hi
WellFormedTexts == {<<53>>, <<45, 50, 46, 53>>, <<61, 65, 49, 43, 49>>, <<61, 64, 83, 85, 77, 40, 65, 49, 58, 65, 50, 41>>, <<34, 104, 105>>}

StoreTexts == ("number" :> MalformedNumbers) @@ ("cellref" :> MalformedCellRefs) @@ ("range" :> MalformedRanges) @@ ("operator" :> UnknownOperators) @@ ("ok" :> WellFormedTexts)

StoreArgs == {[kind |-> "store", class |-> c, text |-> t, sheet |-> s, col |-> b] : c \in DOMAIN StoreTexts, t \in UNION {StoreTexts[k] : k \in DOMAIN StoreTexts}, s \in {"empty", "two"}, b \in {0, 2}}

\* Edit mode with the line typed, on the empty sheet or the sheet with
\* A1 = 1.00 and A2 = 2.00, the cursor at A1 or C1.
InitStore ==
    /\ arg \in {a \in StoreArgs : a.text \in StoreTexts[a.class]}
    /\ cells = FuncSheets[arg.sheet].cells
    /\ heap = FuncSheets[arg.sheet].heap
    /\ FORMULA_PTR = FuncSheets[arg.sheet].FORMULA_PTR
    /\ CURSOR_COL = arg.col
    /\ CURSOR_ROW = 0
    /\ EDIT_MODE = 1
    /\ INPUT_BUF = arg.text
    /\ INPUT_LEN = Len(arg.text)
    /\ script = <<>>
    /\ commits = 0
    /\ cmds = 0
    /\ res = NoRes

NextStore == confirm_edit

SpecStore == InitStore /\ [][NextStore]_vars

\* C18: a malformed input line (a malformed number, a formula with a
\* malformed cell reference, malformed range syntax or an unknown operator)
\* leaves the cell under the cursor with type Error, FORMULA_PTR as it was,
\* no Number or Formula value stored and every other cell unchanged.
C18_MalformedIsError ==
    (res.op = "confirm_edit" /\ arg.class # "ok")
        => /\ CellAt(cells, res.addr)[1] = CELL_ERROR
           /\ SubSeq(CellAt(cells, res.addr), 2, 6) = SubSeq(CellAt(res.cells0, res.addr), 2, 6)
           /\ FORMULA_PTR = res.ptr0
           /\ \A a \in (DOMAIN cells) \cup (DOMAIN res.cells0) : a # res.addr => CellAt(cells, a) = CellAt(res.cells0, a)

(***************************************************************************)
(* Recalculation of a formula that refers to another formula.              *)
(***************************************************************************)
\* 3  -2.5  0  12
FirstNumbers == {<<51>>, <<45, 50, 46, 53>>, <<48>>, <<49, 50>>}

\* 4  -7  0.5  100
SecondNumbers == {<<52>>, <<45, 55>>, <<48, 46, 53>>, <<49, 48, 48>>}

\* =A1+1  =A1*2  =A1
InnerFormulas == {<<61, 65, 49, 43, 49>>, <<61, 65, 49, 42, 50>>, <<61, 65, 49>>}

RecalcArgs == {[kind |-> "recalc", n1 |-> n1, n2 |-> n2, inner |-> t, gcol |-> g, fcol |-> 3 - g] : n1 \in FirstNumbers, n2 \in SecondNumbers, t \in InnerFormulas, g \in {1, 2}}

\* A1 = n1; the formula inner committed in column gcol of row 1; the
\* formula "=" gcol "1" committed in column fcol; then A1 = n2.
RecalcSheet(a) == EnterText(EnterText(EnterText(EnterText(Sheet0, 0, 0, a.n1), a.gcol, 0, a.inner), a.fcol, 0, <<61, 65 + a.gcol, 49>>), 0, 0, a.n2)

InitRecalc ==
    /\ arg \in RecalcArgs
    /\ cells = RecalcSheet(arg).cells
    /\ heap = RecalcSheet(arg).heap
    /\ FORMULA_PTR = RecalcSheet(arg).FORMULA_PTR
    /\ CURSOR_COL = 0
    /\ CURSOR_ROW = 0
    /\ EDIT_MODE = 0
    /\ INPUT_BUF = <<>>
    /\ INPUT_LEN = 0
    /\ script = <<>>
    /\ commits = 0
    /\ cmds = 0
    /\ res = NoRes

NextRecalc == do_recalc

SpecRecalc == InitRecalc /\ [][NextRecalc]_vars

\* The heap pointer a Formula cell holds, and the sign and magnitude cached
\* after the text it points to.
PtrOf(cs, a) == CellAt(cs, a)[3] + 256 * CellAt(cs, a)[4]

CacheOf(hp, ptr) == [sign |-> Peek(EmptyMem, hp, ptr + Len(HeapText(EmptyMem, hp, ptr)) + 1), mag |-> Peek4(EmptyMem, hp, ptr + Len(HeapText(EmptyMem, hp, ptr)) + 2)]

FormulaCells(cs) == {a \in DOMAIN cs : cs[a][1] = CELL_FORMULA}

\* The value eval_expr returned in this recalculation for the formula at ptr.
EvalOf(evals, ptr) == LET e == CHOOSE x \in {evals[i] : i \in 1..Len(evals)} : x.ptr = ptr IN [sign |-> e.sign, mag |-> e.mag]

\* C19: do_recalc evaluates the Formula cells once each in increasing
\* address order; a formula that refers to a Formula cell earlier in that
\* order gets the value just recomputed for it, one that refers to a later
\* Formula cell gets the value cached before the recalculation.
C19_RecalcOrder ==
    (res.op = "do_recalc" /\ arg.kind = "recalc")
        => /\ Len(res.evals) = Cardinality(FormulaCells(cells))
           /\ \A i \in 1..Len(res.evals) : \E a \in FormulaCells(cells) : PtrOf(cells, a) = res.evals[i].ptr /\ Cardinality({b \in FormulaCells(cells) : b < a}) = i - 1
           /\ arg.gcol < arg.fcol => EvalOf(res.evals, PtrOf(cells, get_cell_addr(arg.fcol, 0))) = EvalOf(res.evals, PtrOf(cells, get_cell_addr(arg.gcol, 0)))
           /\ arg.gcol > arg.fcol => EvalOf(res.evals, PtrOf(cells, get_cell_addr(arg.fcol, 0))) = CacheOf(res.heap0, PtrOf(cells, get_cell_addr(arg.gcol, 0)))

(***************************************************************************)
(* bcd_cmp on pairs of valid magnitudes.                                   *)
(***************************************************************************)
CmpValues == {0, 1, 9, 10, 99, 100, 101, 255, 9999, 10000, 10001, 990000, 999999, 1000000, 1000001, 12345678, 87654321, 90000000, 99000000, 99999999}

InitCmp ==
    /\ startup
    /\ arg \in [a : {Bcd(n) : n \in CmpValues}, b : {Bcd(n) : n \in CmpValues}]
    /\ res = NoRes

\* CALL bcd_cmp with HL at a and DE at b.
ApplyBcdCmp ==
    /\ res.op = "none"
    /\ \E f \in {bcd_cmp(arg.a, arg.b)} : res' = [op |-> "bcd_cmp", z |-> f.z, cy |-> f.cy]
    /\ UNCHANGED <<progVars, arg>>

NextCmp == ApplyBcdCmp

SpecCmp == InitCmp /\ [][NextCmp]_vars

RectValues(cs, hp, r) == {NumericValue(cs, hp, RectCell(r, i)) : i \in {j \in 0..(RectSize(r) - 1) : IsNumeric(cs, RectCell(r, j))}}

\* C30: @MIN (@MAX) over a range inside the grid with at least one Number or
\* Formula cell returns the sign and magnitude of a cell of the range whose
\* signed value is the least (greatest) of the range, also when the range
\* holds negative and positive values.
C30_MinMaxSigned ==
    (res.op = "parse_func" /\ arg.func \in {"MIN", "MAX"} /\ InGrid(arg.rect) /\ RectCount(cells, arg.rect) >= 1)
        => /\ ~res.carry
           /\ SVal(res.sign, res.mag) \in RectValues(cells, heap, arg.rect)
           /\ arg.func = "MIN" => \A v \in RectValues(cells, heap, arg.rect) : SVal(res.sign, res.mag) <= v
           /\ arg.func = "MAX" => \A v \in RectValues(cells, heap, arg.rect) : SVal(res.sign, res.mag) >= v

\* The same for the ranges whose Number and Formula cells are all positive
\* or zero.
C30_MinMaxNonNegative ==
    (\A v \in RectValues(cells, heap, arg.rect) : v >= 0) => C30_MinMaxSigned

(***************************************************************************)
(* The program with a long input line: a digit, '=' or '"' opened the      *)
(* line and LineLen - 1 more keys were typed; a few keys are still to      *)
(* come.                                                                    *)
(***************************************************************************)
LineLen == 38

\* "=A00000000000000001+A00000000000000000" and a label.
LongLines == {<<61, 65>> \o [i \in 1..17 |-> IF i = 17 THEN 49 ELSE 48] \o <<43, 65>> \o [i \in 1..(LineLen - 21) |-> 48],
              <<34>> \o [i \in 1..(LineLen - 1) |-> 97 + (i % 26)]}

MoreKeys == {<<50, 57, 49>>, <<53>>}

InitEdit ==
    /\ cells = EmptyMem
    /\ heap = EmptyMem
    /\ FORMULA_PTR = SCRATCH
    /\ CURSOR_COL = 0
    /\ CURSOR_ROW = 0
    /\ EDIT_MODE = 1
    /\ arg \in [kind : {"edit"}, text : LongLines, keys : MoreKeys]
    /\ INPUT_BUF = arg.text
    /\ INPUT_LEN = Len(arg.text)
    /\ script = arg.keys
    /\ commits = 0
    /\ cmds = 0
    /\ res = NoRes

SpecEdit == InitEdit /\ [][Next]_vars

\* A step of edit_mode_input taken with the input line full.
C22_Step ==
    (EDIT_MODE # 0 /\ EDIT_MODE' # 0 /\ script # <<>> /\ script' = Tail(script) /\ INPUT_LEN >= INPUT_MAX)
        => UNCHANGED <<INPUT_BUF, INPUT_LEN, cells, heap>>

\* C22: in edit mode INPUT_LEN is at most 40 and is the length of the input
\* line, and a printable key typed when INPUT_LEN is 40 leaves the input
\* line, INPUT_LEN, the cells and the heap unchanged.
C22_InputBounded == [](EDIT_MODE # 0 => (INPUT_LEN <= INPUT_MAX /\ Len(INPUT_BUF) = INPUT_LEN)) /\ [][C22_Step]_vars

\* Three keys were typed after a line of 38: the line holds 40, the first
\* two keys at its end, and the third key went nowhere.
C22_Witness ==
    /\ EDIT_MODE # 0 /\ arg.kind = "edit" /\ Len(arg.keys) = 3 /\ script = <<>>
    /\ commits = 0 /\ cmds = 0
    /\ INPUT_LEN = INPUT_MAX
    /\ INPUT_BUF = arg.text \o SubSeq(arg.keys, 1, 2)

\* A Formula cell whose text has 40 characters was opened with CR.
C22_LoadedFull ==
    /\ EDIT_MODE # 0 /\ commits = 1 /\ INPUT_LEN = INPUT_MAX
    /\ CellAt(cells, get_cell_addr(CURSOR_COL, CURSOR_ROW))[1] = CELL_FORMULA

(***************************************************************************)
(* The generator.  generate() is straight-line code: a fixed sequence of   *)
(* calls on the emitter (CodeGen), listed here per emitting function in    *)
(* source order.  <<"emit", n>> stands for n bytes appended by emit,       *)
(* emit_word and the one-instruction helpers (a three-byte helper that     *)
(* takes a label is one byte and a fixup); <<"patch", name>> is the inline *)
(* get_label(name).unwrap_or(0) patch of the byte just emitted.            *)
(***************************************************************************)
\* emit_spreadsheet_startup (codegen.rs 144-183).
emit_spreadsheet_startup ==
    <<
    <<"ld_sp", 16383>>, <<"emit", 1>>, <<"fixup", "welcome_msg">>, <<"emit", 1>>, <<"fixup", "print_string">>,
    <<"emit", 33>>, <<"label", "clear_cells_loop">>, <<"emit", 7>>, <<"fixup", "clear_cells_loop">>,
    <<"emit", 1>>, <<"fixup", "refresh_display">>
    >>

\* emit_main_loop (codegen.rs 184-1058).
emit_main_loop ==
    <<
    <<"label", "main_loop">>, <<"emit", 1>>, <<"fixup", "getchar">>, <<"emit", 7>>,
    <<"fixup", "edit_mode_input">>, <<"emit", 3>>, <<"fixup", "handle_escape">>, <<"emit", 3>>,
    <<"fixup", "quit">>, <<"emit", 3>>, <<"fixup", "start_edit">>, <<"emit", 3>>, <<"fixup", "start_formula">>,
    <<"emit", 3>>, <<"fixup", "start_number">>, <<"emit", 3>>, <<"fixup", "check_hjkl">>, <<"emit", 3>>,
    <<"fixup", "check_hjkl">>, <<"emit", 1>>, <<"fixup", "start_number">>, <<"label", "check_hjkl">>,
    <<"emit", 3>>, <<"fixup", "move_left">>, <<"emit", 3>>, <<"fixup", "move_down">>, <<"emit", 3>>,
    <<"fixup", "move_up">>, <<"emit", 3>>, <<"fixup", "move_right">>, <<"emit", 3>>,
    <<"fixup", "command_mode">>, <<"emit", 3>>, <<"fixup", "do_recalc">>, <<"emit", 1>>,
    <<"fixup", "main_loop">>, <<"label", "handle_escape">>, <<"emit", 1>>, <<"fixup", "getchar">>,
    <<"emit", 3>>, <<"fixup", "main_loop">>, <<"emit", 1>>, <<"fixup", "getchar">>, <<"emit", 3>>,
    <<"fixup", "move_up">>, <<"emit", 3>>, <<"fixup", "move_down">>, <<"emit", 3>>, <<"fixup", "move_right">>,
    <<"emit", 3>>, <<"fixup", "move_left">>, <<"emit", 1>>, <<"fixup", "main_loop">>, <<"label", "move_left">>,
    <<"emit", 5>>, <<"fixup", "move_done">>, <<"emit", 5>>, <<"fixup", "move_done">>, <<"label", "move_right">>,
    <<"emit", 6>>, <<"fixup", "move_done">>, <<"emit", 5>>, <<"fixup", "move_done">>, <<"label", "move_up">>,
    <<"emit", 5>>, <<"fixup", "move_done">>, <<"emit", 5>>, <<"fixup", "move_done">>, <<"label", "move_down">>,
    <<"emit", 6>>, <<"fixup", "move_done">>, <<"emit", 4>>, <<"label", "move_done">>, <<"emit", 1>>,
    <<"fixup", "adjust_view">>, <<"emit", 1>>, <<"fixup", "refresh_display">>, <<"emit", 1>>,
    <<"fixup", "main_loop">>, <<"label", "start_edit">>, <<"emit", 6>>, <<"fixup", "load_cell_to_input">>,
    <<"emit", 1>>, <<"fixup", "show_input_line">>, <<"emit", 1>>, <<"fixup", "main_loop">>,
    <<"label", "start_formula">>, <<"emit", 20>>, <<"fixup", "show_input_line">>, <<"emit", 1>>,
    <<"fixup", "main_loop">>, <<"label", "start_number">>, <<"emit", 20>>, <<"fixup", "show_input_line">>,
    <<"emit", 1>>, <<"fixup", "main_loop">>, <<"label", "edit_mode_input">>, <<"emit", 3>>,
    <<"fixup", "cancel_edit">>, <<"emit", 3>>, <<"fixup", "confirm_edit">>, <<"emit", 3>>,
    <<"fixup", "edit_backspace">>, <<"emit", 3>>, <<"fixup", "edit_backspace">>, <<"emit", 3>>,
    <<"fixup", "main_loop">>, <<"emit", 3>>, <<"fixup", "main_loop">>, <<"emit", 7>>,
    <<"fixup", "edit_input_full">>, <<"emit", 17>>, <<"fixup", "show_input_line">>, <<"emit", 1>>,
    <<"fixup", "main_loop">>, <<"label", "edit_input_full">>, <<"emit", 2>>, <<"fixup", "main_loop">>,
    <<"label", "edit_backspace">>, <<"emit", 5>>, <<"fixup", "main_loop">>, <<"emit", 5>>,
    <<"fixup", "show_input_line">>, <<"emit", 1>>, <<"fixup", "main_loop">>, <<"label", "cancel_edit">>,
    <<"emit", 5>>, <<"fixup", "refresh_display">>, <<"emit", 1>>, <<"fixup", "main_loop">>,
    <<"label", "confirm_edit">>, <<"emit", 13>>, <<"fixup", "parse_and_store">>, <<"emit", 5>>,
    <<"fixup", "recalculate">>, <<"emit", 1>>, <<"fixup", "refresh_display">>, <<"emit", 1>>,
    <<"fixup", "main_loop">>, <<"label", "command_mode">>, <<"emit", 5>>, <<"fixup", "cursor_pos">>,
    <<"emit", 1>>, <<"fixup", "clear_to_eol">>, <<"emit", 1>>, <<"fixup", "cmd_help_str">>, <<"emit", 1>>,
    <<"fixup", "print_string">>, <<"emit", 1>>, <<"fixup", "getchar">>, <<"emit", 3>>, <<"fixup", "cmd_goto">>,
    <<"emit", 3>>, <<"fixup", "cmd_goto">>, <<"emit", 3>>, <<"fixup", "cmd_clear">>, <<"emit", 3>>,
    <<"fixup", "cmd_clear">>, <<"emit", 3>>, <<"fixup", "quit">>, <<"emit", 3>>, <<"fixup", "quit">>,
    <<"emit", 3>>, <<"fixup", "cmd_repeat">>, <<"emit", 3>>, <<"fixup", "cmd_replicate">>, <<"emit", 3>>,
    <<"fixup", "cmd_replicate">>, <<"emit", 3>>, <<"fixup", "cmd_width">>, <<"emit", 3>>,
    <<"fixup", "cmd_width">>, <<"emit", 1>>, <<"fixup", "refresh_display">>, <<"emit", 1>>,
    <<"fixup", "main_loop">>, <<"label", "cmd_goto">>, <<"emit", 5>>, <<"fixup", "cursor_pos">>, <<"emit", 1>>,
    <<"fixup", "clear_to_eol">>, <<"emit", 1>>, <<"fixup", "goto_prompt">>, <<"emit", 1>>,
    <<"fixup", "print_string">>, <<"emit", 1>>, <<"fixup", "cursor_show">>, <<"emit", 1>>,
    <<"fixup", "getchar">>, <<"emit", 1>>, <<"fixup", "putchar">>, <<"emit", 3>>, <<"fixup", "goto_check_col">>,
    <<"emit", 3>>, <<"fixup", "goto_check_col">>, <<"emit", 2>>, <<"label", "goto_check_col">>, <<"emit", 3>>,
    <<"fixup", "goto_cancel">>, <<"emit", 3>>, <<"fixup", "goto_cancel">>, <<"emit", 6>>,
    <<"fixup", "getchar">>, <<"emit", 1>>, <<"fixup", "putchar">>, <<"emit", 3>>, <<"fixup", "goto_cancel">>,
    <<"emit", 3>>, <<"fixup", "goto_cancel">>, <<"emit", 6>>, <<"fixup", "getchar">>, <<"emit", 3>>,
    <<"fixup", "goto_execute">>, <<"emit", 1>>, <<"fixup", "putchar">>, <<"emit", 3>>,
    <<"fixup", "goto_cancel">>, <<"emit", 3>>, <<"fixup", "goto_cancel">>, <<"emit", 18>>,
    <<"fixup", "getchar">>, <<"label", "goto_execute">>, <<"emit", 13>>, <<"fixup", "goto_row_ok">>,
    <<"emit", 2>>, <<"label", "goto_row_ok">>, <<"emit", 4>>, <<"fixup", "adjust_view">>, <<"emit", 1>>,
    <<"fixup", "refresh_display">>, <<"emit", 1>>, <<"fixup", "main_loop">>, <<"label", "goto_cancel">>,
    <<"emit", 1>>, <<"fixup", "refresh_display">>, <<"emit", 1>>, <<"fixup", "main_loop">>,
    <<"label", "cmd_clear">>, <<"emit", 9>>, <<"fixup", "get_cell_addr">>, <<"emit", 3>>,
    <<"fixup", "refresh_display">>, <<"emit", 1>>, <<"fixup", "main_loop">>, <<"label", "cmd_repeat">>,
    <<"emit", 5>>, <<"fixup", "cursor_pos">>, <<"emit", 1>>, <<"fixup", "clear_to_eol">>, <<"emit", 1>>,
    <<"fixup", "repeat_prompt">>, <<"emit", 1>>, <<"fixup", "print_string">>, <<"emit", 1>>,
    <<"fixup", "cursor_show">>, <<"emit", 1>>, <<"fixup", "getchar">>, <<"emit", 12>>,
    <<"fixup", "get_cell_addr">>, <<"emit", 9>>, <<"fixup", "refresh_display">>, <<"emit", 1>>,
    <<"fixup", "main_loop">>, <<"label", "cmd_replicate">>, <<"emit", 5>>, <<"fixup", "cursor_pos">>,
    <<"emit", 1>>, <<"fixup", "clear_to_eol">>, <<"emit", 1>>, <<"fixup", "copy_to_prompt">>, <<"emit", 1>>,
    <<"fixup", "print_string">>, <<"emit", 1>>, <<"fixup", "cursor_show">>, <<"emit", 1>>,
    <<"fixup", "getchar">>, <<"emit", 1>>, <<"fixup", "putchar">>, <<"emit", 3>>, <<"fixup", "repl_col_check">>,
    <<"emit", 3>>, <<"fixup", "repl_col_check">>, <<"emit", 2>>, <<"label", "repl_col_check">>, <<"emit", 3>>,
    <<"fixup", "repl_cancel">>, <<"emit", 3>>, <<"fixup", "repl_cancel">>, <<"emit", 7>>,
    <<"label", "repl_row_loop">>, <<"emit", 1>>, <<"fixup", "getchar">>, <<"emit", 3>>,
    <<"fixup", "repl_row_done">>, <<"emit", 1>>, <<"fixup", "putchar">>, <<"emit", 3>>,
    <<"fixup", "repl_cancel">>, <<"emit", 3>>, <<"fixup", "repl_cancel">>, <<"emit", 12>>,
    <<"fixup", "repl_row_loop">>, <<"label", "repl_row_done">>, <<"emit", 3>>, <<"fixup", "repl_cancel">>,
    <<"emit", 4>>, <<"fixup", "repl_cancel">>, <<"emit", 12>>, <<"fixup", "get_cell_addr">>, <<"emit", 10>>,
    <<"fixup", "get_cell_addr">>, <<"emit", 4>>, <<"label", "repl_copy_loop">>, <<"emit", 6>>,
    <<"patch", "repl_copy_loop">>, <<"emit", 13>>, <<"fixup", "adjust_view">>, <<"emit", 1>>,
    <<"fixup", "refresh_display">>, <<"emit", 1>>, <<"fixup", "main_loop">>, <<"label", "repl_cancel">>,
    <<"emit", 1>>, <<"fixup", "refresh_display">>, <<"emit", 1>>, <<"fixup", "main_loop">>,
    <<"label", "cmd_width">>, <<"emit", 5>>, <<"fixup", "cursor_pos">>, <<"emit", 1>>,
    <<"fixup", "clear_to_eol">>, <<"emit", 1>>, <<"fixup", "width_prompt">>, <<"emit", 1>>,
    <<"fixup", "print_string">>, <<"emit", 1>>, <<"fixup", "cursor_show">>, <<"emit", 2>>,
    <<"label", "width_digit_loop">>, <<"emit", 1>>, <<"fixup", "getchar">>, <<"emit", 3>>,
    <<"fixup", "width_done">>, <<"emit", 1>>, <<"fixup", "putchar">>, <<"emit", 3>>,
    <<"fixup", "width_cancel">>, <<"emit", 3>>, <<"fixup", "width_cancel">>, <<"emit", 12>>,
    <<"fixup", "width_digit_loop">>, <<"label", "width_done">>, <<"emit", 4>>, <<"fixup", "width_cancel">>,
    <<"emit", 3>>, <<"fixup", "width_cancel">>, <<"emit", 4>>, <<"fixup", "refresh_display">>, <<"emit", 1>>,
    <<"fixup", "main_loop">>, <<"label", "width_cancel">>, <<"emit", 1>>, <<"fixup", "refresh_display">>,
    <<"emit", 1>>, <<"fixup", "main_loop">>, <<"label", "do_recalc">>, <<"emit", 6>>,
    <<"label", "recalc_loop">>, <<"emit", 6>>, <<"fixup", "recalc_next">>, <<"emit", 10>>,
    <<"fixup", "eval_expr">>, <<"emit", 1>>, <<"label", "recalc_find_end">>, <<"emit", 4>>,
    <<"fixup", "recalc_find_end">>, <<"emit", 6>>, <<"label", "recalc_store_loop">>, <<"emit", 5>>,
    <<"emit_relative", "recalc_store_loop">>, <<"emit", 1>>, <<"label", "recalc_next">>, <<"emit", 12>>,
    <<"fixup", "recalc_loop">>, <<"emit", 1>>, <<"fixup", "refresh_display">>, <<"emit", 1>>,
    <<"fixup", "main_loop">>, <<"label", "quit">>, <<"emit", 1>>, <<"fixup", "quit_msg">>, <<"emit", 1>>,
    <<"fixup", "print_string">>, <<"emit", 1>>
    >>

\* emit_display (codegen.rs 1059-1679).
emit_display ==
    <<
    <<"label", "adjust_view">>, <<"emit", 9>>, <<"fixup", "adjust_check_bottom">>, <<"emit", 1>>,
    <<"fixup", "adjust_check_bottom">>, <<"emit", 4>>, <<"label", "adjust_check_bottom">>, <<"emit", 11>>,
    <<"fixup", "adjust_check_left">>, <<"emit", 6>>, <<"label", "adjust_check_left">>, <<"emit", 9>>,
    <<"fixup", "adjust_check_right">>, <<"emit", 1>>, <<"fixup", "adjust_check_right">>, <<"emit", 4>>,
    <<"label", "adjust_check_right">>, <<"emit", 11>>, <<"fixup", "adjust_done">>, <<"emit", 6>>,
    <<"label", "adjust_done">>, <<"emit", 1>>, <<"label", "refresh_display">>, <<"emit", 1>>,
    <<"fixup", "clear_screen">>, <<"emit", 1>>, <<"fixup", "cursor_hide">>, <<"emit", 5>>,
    <<"fixup", "cursor_pos">>, <<"emit", 1>>, <<"fixup", "title_str">>, <<"emit", 1>>,
    <<"fixup", "print_string">>, <<"emit", 5>>, <<"fixup", "cursor_pos">>, <<"emit", 1>>,
    <<"fixup", "help_str">>, <<"emit", 1>>, <<"fixup", "print_string">>, <<"emit", 5>>,
    <<"fixup", "cursor_pos">>, <<"emit", 3>>, <<"fixup", "putchar">>, <<"emit", 1>>, <<"fixup", "putchar">>,
    <<"emit", 1>>, <<"fixup", "putchar">>, <<"emit", 1>>, <<"fixup", "putchar">>, <<"emit", 1>>,
    <<"fixup", "putchar">>, <<"emit", 6>>, <<"label", "header_col_loop">>, <<"emit", 4>>,
    <<"fixup", "header_done">>, <<"emit", 3>>, <<"fixup", "putchar">>, <<"emit", 5>>,
    <<"label", "header_pad_loop">>, <<"emit", 1>>, <<"fixup", "putchar">>, <<"emit", 2>>,
    <<"fixup", "header_pad_loop">>, <<"emit", 4>>, <<"fixup", "header_col_loop">>, <<"label", "header_done">>,
    <<"emit", 11>>, <<"label", "display_row_loop">>, <<"emit", 6>>, <<"fixup", "display_done">>, <<"emit", 6>>,
    <<"fixup", "display_done">>, <<"emit", 9>>, <<"fixup", "cursor_pos">>, <<"emit", 8>>,
    <<"fixup", "print_int_padded">>, <<"emit", 6>>, <<"label", "display_cell_loop">>, <<"emit", 4>>,
    <<"fixup", "display_row_end">>, <<"emit", 5>>, <<"fixup", "not_cursor_cell">>, <<"emit", 10>>,
    <<"fixup", "not_cursor_cell">>, <<"emit", 3>>, <<"fixup", "putchar">>, <<"emit", 1>>,
    <<"fixup", "print_cell_value">>, <<"label", "not_cursor_cell">>, <<"emit", 3>>, <<"fixup", "putchar">>,
    <<"label", "print_cell_value">>, <<"emit", 8>>, <<"fixup", "get_cell_addr">>, <<"emit", 1>>,
    <<"fixup", "print_cell">>, <<"emit", 6>>, <<"fixup", "cell_no_bracket">>, <<"emit", 10>>,
    <<"fixup", "cell_no_bracket">>, <<"emit", 3>>, <<"fixup", "putchar">>, <<"emit", 1>>,
    <<"fixup", "cell_next">>, <<"label", "cell_no_bracket">>, <<"emit", 3>>, <<"fixup", "putchar">>,
    <<"label", "cell_next">>, <<"emit", 3>>, <<"fixup", "display_cell_loop">>, <<"label", "display_row_end">>,
    <<"emit", 15>>, <<"fixup", "display_row_loop">>, <<"label", "display_done">>, <<"emit", 5>>,
    <<"fixup", "cursor_pos">>, <<"emit", 1>>, <<"fixup", "print_status">>, <<"emit", 1>>,
    <<"fixup", "cursor_show">>, <<"emit", 1>>, <<"label", "print_cell">>, <<"emit", 3>>,
    <<"fixup", "print_cell_empty">>, <<"emit", 3>>, <<"fixup", "print_cell_number">>, <<"emit", 3>>,
    <<"fixup", "print_cell_error">>, <<"emit", 3>>, <<"fixup", "print_cell_repeat">>, <<"emit", 3>>,
    <<"fixup", "print_cell_label">>, <<"emit", 1>>, <<"fixup", "print_cell_formula">>,
    <<"label", "print_cell_empty">>, <<"emit", 4>>, <<"label", "print_empty_loop">>, <<"emit", 1>>,
    <<"fixup", "putchar">>, <<"emit", 2>>, <<"patch", "print_empty_loop">>, <<"emit", 1>>,
    <<"label", "print_cell_number">>, <<"emit", 9>>, <<"label", "load_bcd_loop">>, <<"emit", 5>>,
    <<"emit_relative", "load_bcd_loop">>, <<"emit", 1>>, <<"fixup", "bcd_to_ascii">>, <<"emit", 2>>,
    <<"fixup", "print_bcd_cell_signed">>, <<"emit", 1>>, <<"label", "print_cell_error">>, <<"emit", 1>>,
    <<"fixup", "error_str">>, <<"emit", 1>>, <<"fixup", "print_string">>, <<"emit", 1>>,
    <<"label", "print_cell_formula">>, <<"emit", 6>>, <<"label", "find_formula_value">>, <<"emit", 4>>,
    <<"fixup", "find_formula_value">>, <<"emit", 9>>, <<"label", "load_formula_bcd">>, <<"emit", 5>>,
    <<"emit_relative", "load_formula_bcd">>, <<"emit", 1>>, <<"fixup", "bcd_to_ascii">>, <<"emit", 2>>,
    <<"fixup", "print_bcd_cell_signed">>, <<"emit", 1>>, <<"label", "print_cell_repeat">>, <<"emit", 5>>,
    <<"label", "print_repeat_loop">>, <<"emit", 2>>, <<"fixup", "putchar">>, <<"emit", 2>>,
    <<"patch", "print_repeat_loop">>, <<"emit", 1>>, <<"label", "print_cell_label">>, <<"emit", 9>>,
    <<"label", "print_label_loop">>, <<"emit", 3>>, <<"fixup", "print_label_pad">>, <<"emit", 1>>,
    <<"fixup", "putchar">>, <<"emit", 3>>, <<"patch", "print_label_loop">>, <<"emit", 1>>,
    <<"label", "print_label_pad">>, <<"emit", 5>>, <<"label", "print_label_pad_loop">>, <<"emit", 1>>,
    <<"fixup", "putchar">>, <<"emit", 2>>, <<"patch", "print_label_pad_loop">>, <<"emit", 1>>,
    <<"label", "print_status">>, <<"emit", 6>>, <<"fixup", "putchar">>, <<"emit", 8>>, <<"fixup", "print_int">>,
    <<"emit", 3>>, <<"fixup", "putchar">>, <<"emit", 3>>, <<"fixup", "putchar">>, <<"emit", 9>>,
    <<"fixup", "get_cell_addr">>, <<"emit", 1>>, <<"fixup", "print_cell_content">>, <<"emit", 1>>,
    <<"label", "print_cell_content">>, <<"emit", 6>>, <<"fixup", "print_content_formula">>, <<"emit", 9>>,
    <<"label", "load_status_bcd">>, <<"emit", 5>>, <<"emit_relative", "load_status_bcd">>, <<"emit", 1>>,
    <<"fixup", "bcd_to_ascii">>, <<"emit", 4>>, <<"fixup", "status_skip_zeros">>, <<"emit", 3>>,
    <<"fixup", "putchar">>, <<"label", "status_skip_zeros">>, <<"emit", 5>>,
    <<"label", "status_skip_zeros_loop">>, <<"emit", 4>>, <<"fixup", "status_print_num">>, <<"emit", 2>>,
    <<"emit_relative", "status_skip_zeros_loop">>, <<"label", "status_print_num">>, <<"emit", 1>>,
    <<"fixup", "print_string">>, <<"emit", 1>>, <<"label", "print_content_formula">>, <<"emit", 7>>,
    <<"fixup", "print_string">>, <<"emit", 1>>, <<"label", "show_input_line">>, <<"emit", 5>>,
    <<"fixup", "cursor_pos">>, <<"emit", 3>>, <<"fixup", "putchar">>, <<"emit", 3>>, <<"fixup", "putchar">>,
    <<"emit", 9>>, <<"fixup", "show_input_done">>, <<"label", "show_input_loop">>, <<"emit", 2>>,
    <<"fixup", "putchar">>, <<"emit", 3>>, <<"patch", "show_input_loop">>, <<"label", "show_input_done">>,
    <<"emit", 1>>, <<"fixup", "clear_to_eol">>, <<"emit", 1>>
    >>

\* emit_input (codegen.rs 1680-1908).
emit_input ==
    <<
    <<"label", "parse_and_store">>, <<"emit", 12>>, <<"fixup", "parse_formula">>, <<"emit", 3>>,
    <<"fixup", "parse_label">>, <<"emit", 1>>, <<"fixup", "parse_number">>, <<"emit", 1>>,
    <<"fixup", "store_error">>, <<"emit", 10>>, <<"fixup", "get_cell_addr">>, <<"emit", 11>>,
    <<"label", "store_num_loop">>, <<"emit", 5>>, <<"emit_relative", "store_num_loop">>, <<"emit", 1>>,
    <<"label", "store_error">>, <<"emit", 9>>, <<"fixup", "get_cell_addr">>, <<"emit", 3>>,
    <<"label", "parse_label">>, <<"emit", 11>>, <<"label", "copy_label_loop">>, <<"emit", 6>>,
    <<"patch", "copy_label_loop">>, <<"emit", 15>>, <<"fixup", "get_cell_addr">>, <<"emit", 11>>,
    <<"label", "load_cell_to_input">>, <<"emit", 9>>, <<"fixup", "get_cell_addr">>, <<"emit", 3>>,
    <<"fixup", "load_cell_empty">>, <<"emit", 3>>, <<"fixup", "load_cell_number">>, <<"emit", 3>>,
    <<"fixup", "load_cell_formula">>, <<"label", "load_cell_empty">>, <<"emit", 8>>,
    <<"label", "load_cell_number">>, <<"emit", 7>>, <<"fixup", "int_to_str">>, <<"emit", 1>>,
    <<"label", "load_cell_formula">>, <<"emit", 10>>, <<"label", "load_formula_loop">>, <<"emit", 3>>,
    <<"fixup", "load_formula_done">>, <<"emit", 5>>, <<"fixup", "load_formula_loop">>,
    <<"label", "load_formula_done">>, <<"emit", 8>>, <<"label", "parse_number">>, <<"emit", 17>>,
    <<"fixup", "parse_num_error">>, <<"emit", 3>>, <<"fixup", "parse_num_error">>, <<"emit", 1>>,
    <<"fixup", "ascii_to_bcd">>, <<"emit", 2>>, <<"label", "parse_num_error">>, <<"emit", 2>>
    >>

\* emit_cell_ops (codegen.rs 1909-1942).
emit_cell_ops ==
    <<
    <<"label", "get_cell_addr">>, <<"emit", 21>>, <<"label", "recalculate">>, <<"emit", 1>>
    >>

\* emit_bcd_add_sub (codegen.rs 1943-1996).
emit_bcd_add_sub ==
    <<
    <<"label", "bcd_add">>, <<"emit", 9>>, <<"label", "bcd_add_loop">>, <<"emit", 7>>,
    <<"emit_relative", "bcd_add_loop">>, <<"emit", 1>>, <<"label", "bcd_sub">>, <<"emit", 9>>,
    <<"label", "bcd_sub_loop">>, <<"emit", 9>>, <<"emit_relative", "bcd_sub_loop">>, <<"emit", 1>>
    >>

\* bcd_cmp with its loop label declared after the DJNZ.
emit_bcd_cmp_label_late ==
    <<
    <<"label", "bcd_cmp">>, <<"emit", 8>>, <<"emit_relative", "bcd_cmp_loop">>, <<"label", "bcd_cmp_loop">>, <<"emit", 1>>
    >>

\* emit_bcd_cmp (codegen.rs 1997-2009).
emit_bcd_cmp ==
    <<
    <<"label", "bcd_cmp">>, <<"emit", 2>>, <<"label", "bcd_cmp_loop">>, <<"emit", 6>>,
    <<"emit_relative", "bcd_cmp_loop">>, <<"emit", 1>>
    >>

\* emit_bcd_mul_div_conv (codegen.rs 2010-2586).
emit_bcd_mul_div_conv ==
    <<
    <<"label", "bcd_zero">>, <<"emit", 9>>, <<"label", "bcd_copy">>, <<"emit", 2>>,
    <<"label", "bcd_copy_loop">>, <<"emit", 5>>, <<"emit_relative", "bcd_copy_loop">>, <<"emit", 1>>,
    <<"label", "signed_add">>, <<"emit", 9>>, <<"fixup", "signed_add_same">>, <<"emit", 7>>,
    <<"fixup", "bcd_cmp">>, <<"emit", 1>>, <<"fixup", "signed_add_op_larger">>, <<"emit", 7>>,
    <<"fixup", "bcd_sub">>, <<"emit", 7>>, <<"fixup", "bcd_copy">>, <<"emit", 1>>,
    <<"label", "signed_add_op_larger">>, <<"emit", 7>>, <<"fixup", "bcd_sub">>, <<"emit", 7>>,
    <<"label", "signed_add_same">>, <<"emit", 7>>, <<"fixup", "bcd_add">>, <<"emit", 1>>,
    <<"label", "bcd_mul">>, <<"emit", 6>>, <<"label", "bcd_mul_clr">>, <<"emit", 3>>,
    <<"emit_relative", "bcd_mul_clr">>, <<"emit", 5>>, <<"label", "bcd_mul_digit">>, <<"emit", 10>>,
    <<"fixup", "bcd_mul_by_digit">>, <<"emit", 4>>, <<"fixup", "bcd_mul_done">>, <<"emit", 6>>,
    <<"fixup", "bcd_mul_by_digit">>, <<"emit", 5>>, <<"fixup", "bcd_mul_digit">>, <<"label", "bcd_mul_done">>,
    <<"emit", 8>>, <<"label", "bcd_shr_loop">>, <<"emit", 5>>, <<"emit_relative", "bcd_shr_loop">>,
    <<"emit", 12>>, <<"fixup", "bcd_copy">>, <<"emit", 1>>, <<"label", "bcd_mul_by_digit">>, <<"emit", 5>>,
    <<"fixup", "bcd_shift_left">>, <<"emit", 4>>, <<"label", "bcd_mul_add_loop">>, <<"emit", 8>>,
    <<"fixup", "bcd_add">>, <<"emit", 2>>, <<"emit_relative", "bcd_mul_add_loop">>, <<"emit", 1>>,
    <<"label", "bcd_shift_left">>, <<"emit", 7>>, <<"label", "bcd_shl_loop">>, <<"emit", 20>>,
    <<"emit_relative", "bcd_shl_loop">>, <<"emit", 1>>, <<"label", "bcd_div">>, <<"emit", 11>>,
    <<"fixup", "bcd_div_ok">>, <<"emit", 2>>, <<"label", "bcd_div_ok">>, <<"emit", 8>>,
    <<"label", "bcd_div_shl_loop">>, <<"emit", 5>>, <<"emit_relative", "bcd_div_shl_loop">>, <<"emit", 2>>,
    <<"label", "bcd_div_noscale">>, <<"emit", 4>>, <<"fixup", "bcd_zero">>, <<"emit", 4>>,
    <<"fixup", "bcd_zero">>, <<"label", "bcd_div_loop">>, <<"emit", 7>>, <<"fixup", "bcd_cmp">>, <<"emit", 1>>,
    <<"fixup", "bcd_div_done2">>, <<"emit", 7>>, <<"fixup", "bcd_sub">>, <<"emit", 9>>,
    <<"emit_relative", "bcd_div_loop">>, <<"emit", 2>>, <<"label", "bcd_div_carry">>, <<"emit", 7>>,
    <<"emit_relative", "bcd_div_loop">>, <<"emit", 1>>, <<"emit_relative", "bcd_div_carry">>, <<"emit", 1>>,
    <<"fixup", "bcd_div_loop">>, <<"label", "bcd_div_done2">>, <<"emit", 7>>, <<"fixup", "bcd_copy">>,
    <<"emit", 2>>, <<"label", "ascii_to_bcd">>, <<"emit", 5>>, <<"fixup", "bcd_zero">>, <<"emit", 16>>,
    <<"label", "atob_loop">>, <<"emit", 3>>, <<"fixup", "atob_done">>, <<"emit", 3>>,
    <<"fixup", "atob_not_decimal">>, <<"emit", 6>>, <<"fixup", "atob_loop">>, <<"label", "atob_not_decimal">>,
    <<"emit", 3>>, <<"fixup", "atob_done">>, <<"emit", 3>>, <<"fixup", "atob_done">>, <<"emit", 6>>,
    <<"fixup", "atob_done">>, <<"emit", 7>>, <<"label", "atob_shift">>, <<"emit", 16>>,
    <<"emit_relative", "atob_shift">>, <<"emit", 22>>, <<"fixup", "atob_loop">>, <<"label", "atob_done">>,
    <<"emit", 7>>, <<"fixup", "atob_check_frac">>, <<"label", "atob_no_decimal">>, <<"emit", 3>>,
    <<"fixup", "atob_scale_loop">>, <<"label", "atob_check_frac">>, <<"emit", 9>>, <<"fixup", "atob_scale_1">>,
    <<"emit", 3>>, <<"fixup", "atob_scale_loop">>, <<"label", "atob_scale_1">>, <<"emit", 2>>,
    <<"label", "atob_scale_loop">>, <<"emit", 16>>, <<"emit_relative", "atob_scale_loop">>, <<"emit", 1>>,
    <<"label", "bcd_to_ascii">>, <<"emit", 8>>, <<"label", "btoa_whole_loop">>, <<"emit", 23>>,
    <<"emit_relative", "btoa_whole_loop">>, <<"emit", 33>>, <<"label", "btoa_digit">>, <<"emit", 6>>,
    <<"label", "btoa_skip">>, <<"emit", 1>>, <<"label", "btoa_output">>, <<"emit", 1>>
    >>

\* emit_formula (codegen.rs 2587-3822).
emit_formula ==
    <<
    <<"label", "parse_formula">>, <<"emit", 6>>, <<"fixup", "store_error">>, <<"emit", 11>>,
    <<"label", "copy_formula_loop">>, <<"emit", 6>>, <<"patch", "copy_formula_loop">>, <<"emit", 8>>,
    <<"fixup", "eval_expr">>, <<"emit", 1>>, <<"fixup", "formula_eval_error">>, <<"emit", 11>>,
    <<"label", "store_formula_bcd">>, <<"emit", 5>>, <<"emit_relative", "store_formula_bcd">>, <<"emit", 14>>,
    <<"fixup", "get_cell_addr">>, <<"emit", 11>>, <<"label", "formula_eval_error">>, <<"emit", 3>>,
    <<"fixup", "store_error">>, <<"label", "eval_expr">>, <<"emit", 4>>, <<"fixup", "parse_operand">>,
    <<"emit", 7>>, <<"label", "eval_loop">>, <<"emit", 7>>, <<"fixup", "bcd_copy">>, <<"emit", 6>>,
    <<"fixup", "eval_done">>, <<"emit", 8>>, <<"fixup", "parse_operand">>, <<"emit", 1>>,
    <<"fixup", "eval_chain_error">>, <<"emit", 13>>, <<"fixup", "bcd_copy">>, <<"emit", 6>>,
    <<"fixup", "eval_add">>, <<"emit", 3>>, <<"fixup", "eval_sub">>, <<"emit", 3>>, <<"fixup", "eval_mul">>,
    <<"emit", 3>>, <<"fixup", "eval_div">>, <<"emit", 2>>, <<"label", "eval_done">>, <<"emit", 2>>,
    <<"label", "eval_chain_error">>, <<"emit", 2>>, <<"label", "eval_add">>, <<"emit", 9>>,
    <<"fixup", "eval_add_same_sign">>, <<"emit", 7>>, <<"fixup", "bcd_cmp">>, <<"emit", 1>>,
    <<"fixup", "eval_add_op_larger">>, <<"emit", 7>>, <<"fixup", "bcd_sub">>, <<"emit", 7>>,
    <<"fixup", "bcd_copy">>, <<"emit", 1>>, <<"fixup", "eval_loop">>, <<"label", "eval_add_op_larger">>,
    <<"emit", 7>>, <<"fixup", "bcd_sub">>, <<"emit", 7>>, <<"fixup", "eval_loop">>,
    <<"label", "eval_add_same_sign">>, <<"emit", 7>>, <<"fixup", "bcd_add">>, <<"emit", 1>>,
    <<"fixup", "eval_loop">>, <<"label", "eval_sub">>, <<"emit", 9>>, <<"fixup", "eval_add">>,
    <<"label", "eval_mul">>, <<"emit", 12>>, <<"fixup", "bcd_mul">>, <<"emit", 1>>, <<"fixup", "eval_loop">>,
    <<"label", "eval_div">>, <<"emit", 18>>, <<"fixup", "bcd_copy">>, <<"emit", 7>>, <<"fixup", "bcd_copy">>,
    <<"emit", 7>>, <<"fixup", "bcd_copy">>, <<"emit", 1>>, <<"fixup", "bcd_div">>, <<"emit", 1>>,
    <<"fixup", "eval_loop">>, <<"label", "parse_operand">>, <<"emit", 7>>, <<"fixup", "parse_func">>,
    <<"emit", 3>>, <<"fixup", "parse_op_no_dollar1">>, <<"emit", 2>>, <<"label", "parse_op_no_dollar1">>,
    <<"emit", 3>>, <<"fixup", "parse_op_check_upper">>, <<"emit", 3>>, <<"fixup", "parse_op_check_upper">>,
    <<"emit", 2>>, <<"label", "parse_op_check_upper">>, <<"emit", 3>>, <<"fixup", "parse_op_number">>,
    <<"emit", 3>>, <<"fixup", "parse_op_number">>, <<"emit", 8>>, <<"fixup", "parse_op_no_dollar2">>,
    <<"emit", 1>>, <<"label", "parse_op_no_dollar2">>, <<"emit", 2>>, <<"label", "parse_row_loop">>,
    <<"emit", 4>>, <<"fixup", "parse_row_done">>, <<"emit", 3>>, <<"fixup", "parse_row_done">>, <<"emit", 12>>,
    <<"fixup", "parse_row_loop">>, <<"label", "parse_row_done">>, <<"emit", 5>>, <<"fixup", "get_cell_addr">>,
    <<"emit", 3>>, <<"fixup", "parse_op_zero">>, <<"emit", 3>>, <<"fixup", "parse_op_formula">>, <<"emit", 11>>,
    <<"label", "load_cell_bcd">>, <<"emit", 5>>, <<"emit_relative", "load_cell_bcd">>, <<"emit", 2>>,
    <<"label", "parse_op_formula">>, <<"emit", 6>>, <<"label", "parse_op_find_end">>, <<"emit", 4>>,
    <<"fixup", "parse_op_find_end">>, <<"emit", 10>>, <<"label", "load_formula_bcd_op">>, <<"emit", 5>>,
    <<"emit_relative", "load_formula_bcd_op">>, <<"emit", 2>>, <<"label", "parse_op_zero">>, <<"emit", 4>>,
    <<"fixup", "bcd_zero">>, <<"emit", 6>>, <<"label", "parse_op_number">>, <<"emit", 19>>,
    <<"fixup", "ascii_to_bcd">>, <<"emit", 9>>, <<"label", "parse_opn_scan">>, <<"emit", 4>>,
    <<"fixup", "parse_opn_next">>, <<"emit", 3>>, <<"fixup", "parse_opn_done">>, <<"emit", 3>>,
    <<"fixup", "parse_opn_done">>, <<"label", "parse_opn_next">>, <<"emit", 2>>, <<"fixup", "parse_opn_scan">>,
    <<"label", "parse_opn_done">>, <<"emit", 5>>, <<"label", "parse_func">>, <<"emit", 7>>,
    <<"fixup", "pf_sum">>, <<"emit", 3>>, <<"fixup", "pf_avg">>, <<"emit", 3>>, <<"fixup", "pf_minmax">>,
    <<"emit", 3>>, <<"fixup", "pf_count">>, <<"emit", 1>>, <<"fixup", "pf_error">>, <<"label", "pf_sum">>,
    <<"emit", 12>>, <<"fixup", "pf_error">>, <<"emit", 7>>, <<"fixup", "pf_error">>, <<"emit", 1>>,
    <<"fixup", "pf_parse_paren">>, <<"label", "pf_avg">>, <<"emit", 12>>, <<"fixup", "pf_error">>,
    <<"emit", 7>>, <<"fixup", "pf_error">>, <<"emit", 1>>, <<"fixup", "pf_parse_paren">>,
    <<"label", "pf_minmax">>, <<"emit", 7>>, <<"fixup", "pf_min">>, <<"emit", 3>>, <<"fixup", "pf_error">>,
    <<"emit", 12>>, <<"fixup", "pf_error">>, <<"emit", 1>>, <<"fixup", "pf_parse_paren">>,
    <<"label", "pf_min">>, <<"emit", 12>>, <<"fixup", "pf_error">>, <<"emit", 1>>,
    <<"fixup", "pf_parse_paren">>, <<"label", "pf_count">>, <<"emit", 12>>, <<"fixup", "pf_error">>,
    <<"emit", 7>>, <<"fixup", "pf_error">>, <<"emit", 7>>, <<"fixup", "pf_error">>, <<"emit", 7>>,
    <<"fixup", "pf_error">>, <<"label", "pf_parse_paren">>, <<"emit", 5>>, <<"fixup", "pf_error">>,
    <<"emit", 7>>, <<"fixup", "pf_error">>, <<"emit", 3>>, <<"fixup", "pf_error">>, <<"emit", 8>>,
    <<"label", "pf_row1_loop">>, <<"emit", 4>>, <<"fixup", "pf_row1_done">>, <<"emit", 3>>,
    <<"fixup", "pf_row1_done">>, <<"emit", 13>>, <<"fixup", "pf_row1_loop">>, <<"label", "pf_row1_done">>,
    <<"emit", 9>>, <<"fixup", "pf_error">>, <<"emit", 7>>, <<"fixup", "pf_error">>, <<"emit", 8>>,
    <<"label", "pf_row2_loop">>, <<"emit", 4>>, <<"fixup", "pf_row2_done">>, <<"emit", 3>>,
    <<"fixup", "pf_row2_done">>, <<"emit", 13>>, <<"fixup", "pf_row2_loop">>, <<"label", "pf_row2_done">>,
    <<"emit", 9>>, <<"fixup", "pf_error">>, <<"emit", 8>>, <<"fixup", "bcd_zero">>, <<"emit", 16>>,
    <<"fixup", "pf_init_done">>, <<"emit", 12>>, <<"label", "pf_init_done">>, <<"emit", 6>>,
    <<"label", "pf_col_loop">>, <<"emit", 4>>, <<"label", "pf_row_loop">>, <<"emit", 6>>,
    <<"fixup", "get_cell_addr">>, <<"emit", 4>>, <<"fixup", "pf_is_number">>, <<"emit", 3>>,
    <<"fixup", "pf_is_formula">>, <<"emit", 1>>, <<"fixup", "pf_skip">>, <<"label", "pf_is_formula">>,
    <<"emit", 6>>, <<"label", "pf_scan_formula">>, <<"emit", 4>>, <<"fixup", "pf_scan_formula">>, <<"emit", 6>>,
    <<"fixup", "pf_read_bcd">>, <<"label", "pf_is_number">>, <<"emit", 6>>, <<"label", "pf_read_bcd">>,
    <<"emit", 14>>, <<"label", "pf_copy_bcd">>, <<"emit", 5>>, <<"emit_relative", "pf_copy_bcd">>,
    <<"emit", 6>>, <<"fixup", "pf_do_min">>, <<"emit", 3>>, <<"fixup", "pf_do_max">>, <<"emit", 9>>,
    <<"fixup", "bcd_copy">>, <<"emit", 7>>, <<"fixup", "bcd_copy">>, <<"emit", 13>>, <<"fixup", "signed_add">>,
    <<"emit", 7>>, <<"fixup", "bcd_copy">>, <<"emit", 8>>, <<"fixup", "pf_next">>, <<"label", "pf_do_min">>,
    <<"emit", 8>>, <<"fixup", "bcd_cmp">>, <<"emit", 1>>, <<"fixup", "pf_next">>, <<"emit", 7>>,
    <<"fixup", "bcd_copy">>, <<"emit", 7>>, <<"fixup", "pf_next">>, <<"label", "pf_do_max">>, <<"emit", 8>>,
    <<"fixup", "bcd_cmp">>, <<"emit", 1>>, <<"fixup", "pf_next">>, <<"emit", 7>>, <<"fixup", "bcd_copy">>,
    <<"emit", 7>>, <<"fixup", "pf_next">>, <<"label", "pf_skip">>, <<"emit", 1>>, <<"label", "pf_next">>,
    <<"emit", 8>>, <<"fixup", "pf_next_col">>, <<"emit", 1>>, <<"fixup", "pf_row_loop">>,
    <<"label", "pf_next_col">>, <<"emit", 13>>, <<"fixup", "pf_done">>, <<"emit", 1>>,
    <<"fixup", "pf_col_loop">>, <<"label", "pf_done">>, <<"emit", 5>>, <<"fixup", "pf_not_sum">>, <<"emit", 7>>,
    <<"fixup", "bcd_copy">>, <<"emit", 8>>, <<"label", "pf_not_sum">>, <<"emit", 3>>, <<"fixup", "pf_not_avg">>,
    <<"emit", 7>>, <<"fixup", "bcd_copy">>, <<"emit", 6>>, <<"fixup", "pf_avg_div">>, <<"emit", 4>>,
    <<"fixup", "bcd_zero">>, <<"emit", 6>>, <<"label", "pf_avg_div">>, <<"emit", 3>>,
    <<"label", "pf_cvt_tens">>, <<"emit", 3>>, <<"fixup", "pf_cvt_done">>, <<"emit", 4>>,
    <<"fixup", "pf_cvt_tens">>, <<"label", "pf_cvt_done">>, <<"emit", 12>>, <<"fixup", "bcd_zero">>,
    <<"emit", 6>>, <<"fixup", "bcd_div_noscale">>, <<"emit", 8>>, <<"label", "pf_not_avg">>, <<"emit", 3>>,
    <<"fixup", "pf_ret_bcd">>, <<"emit", 3>>, <<"fixup", "pf_ret_bcd">>, <<"emit", 6>>,
    <<"label", "pf_cnt_cvt">>, <<"emit", 3>>, <<"fixup", "pf_cnt_done">>, <<"emit", 4>>,
    <<"fixup", "pf_cnt_cvt">>, <<"label", "pf_cnt_done">>, <<"emit", 12>>, <<"fixup", "bcd_zero">>,
    <<"emit", 11>>, <<"label", "pf_ret_bcd">>, <<"emit", 7>>, <<"fixup", "bcd_copy">>, <<"emit", 8>>,
    <<"label", "div16">>, <<"emit", 3>>, <<"label", "div16_loop">>, <<"emit", 4>>, <<"fixup", "div16_done">>,
    <<"emit", 2>>, <<"fixup", "div16_loop">>, <<"label", "div16_done">>, <<"emit", 4>>, <<"label", "pf_error">>,
    <<"emit", 5>>
    >>

\* emit_io (codegen.rs 3823-4444).
emit_io ==
    <<
    <<"label", "getchar">>, <<"emit", 9>>, <<"label", "putchar">>, <<"emit", 1>>, <<"label", "putchar_wait">>,
    <<"emit", 10>>, <<"label", "newline">>, <<"emit", 3>>, <<"fixup", "putchar">>, <<"emit", 3>>,
    <<"fixup", "putchar">>, <<"emit", 1>>, <<"label", "int_to_str">>, <<"emit", 10>>,
    <<"fixup", "int_to_str_pos">>, <<"emit", 17>>, <<"label", "int_to_str_pos">>,
    <<"label", "int_to_str_extract">>, <<"emit", 6>>, <<"label", "int_to_str_div">>, <<"emit", 4>>,
    <<"fixup", "int_to_str_div_done">>, <<"emit", 2>>, <<"fixup", "int_to_str_div">>,
    <<"label", "int_to_str_div_done">>, <<"emit", 17>>, <<"fixup", "int_to_str_extract">>, <<"emit", 14>>,
    <<"label", "int_to_str_pop">>, <<"emit", 5>>, <<"patch", "int_to_str_pop">>, <<"emit", 15>>,
    <<"label", "clear_screen">>, <<"emit", 3>>, <<"fixup", "putchar">>, <<"emit", 3>>, <<"fixup", "putchar">>,
    <<"emit", 3>>, <<"fixup", "putchar">>, <<"emit", 3>>, <<"fixup", "putchar">>, <<"label", "cursor_home">>,
    <<"emit", 3>>, <<"fixup", "putchar">>, <<"emit", 3>>, <<"fixup", "putchar">>, <<"emit", 3>>,
    <<"fixup", "putchar">>, <<"emit", 1>>, <<"label", "cursor_pos">>, <<"emit", 3>>, <<"fixup", "putchar">>,
    <<"emit", 3>>, <<"fixup", "putchar">>, <<"emit", 2>>, <<"fixup", "print_byte_dec">>, <<"emit", 3>>,
    <<"fixup", "putchar">>, <<"emit", 2>>, <<"fixup", "print_byte_dec">>, <<"emit", 3>>, <<"fixup", "putchar">>,
    <<"emit", 1>>, <<"label", "clear_to_eol">>, <<"emit", 3>>, <<"fixup", "putchar">>, <<"emit", 3>>,
    <<"fixup", "putchar">>, <<"emit", 3>>, <<"fixup", "putchar">>, <<"emit", 1>>, <<"label", "cursor_hide">>,
    <<"emit", 3>>, <<"fixup", "putchar">>, <<"emit", 3>>, <<"fixup", "putchar">>, <<"emit", 3>>,
    <<"fixup", "putchar">>, <<"emit", 3>>, <<"fixup", "putchar">>, <<"emit", 3>>, <<"fixup", "putchar">>,
    <<"emit", 3>>, <<"fixup", "putchar">>, <<"emit", 1>>, <<"label", "cursor_show">>, <<"emit", 3>>,
    <<"fixup", "putchar">>, <<"emit", 3>>, <<"fixup", "putchar">>, <<"emit", 3>>, <<"fixup", "putchar">>,
    <<"emit", 3>>, <<"fixup", "putchar">>, <<"emit", 3>>, <<"fixup", "putchar">>, <<"emit", 3>>,
    <<"fixup", "putchar">>, <<"emit", 1>>, <<"label", "print_byte_dec">>, <<"emit", 4>>,
    <<"fixup", "pbd_tens">>, <<"emit", 2>>, <<"label", "pbd_hundreds_loop">>, <<"emit", 6>>,
    <<"fixup", "pbd_hundreds_loop">>, <<"emit", 5>>, <<"fixup", "putchar">>, <<"emit", 2>>,
    <<"fixup", "pbd_tens_force">>, <<"label", "pbd_tens">>, <<"emit", 3>>, <<"fixup", "pbd_ones">>,
    <<"label", "pbd_tens_force">>, <<"emit", 2>>, <<"label", "pbd_tens_loop">>, <<"emit", 6>>,
    <<"fixup", "pbd_tens_loop">>, <<"emit", 5>>, <<"fixup", "putchar">>, <<"emit", 1>>, <<"label", "pbd_ones">>,
    <<"emit", 3>>, <<"fixup", "putchar">>, <<"emit", 2>>, <<"label", "print_string">>, <<"emit", 4>>,
    <<"fixup", "putchar">>, <<"emit", 2>>, <<"fixup", "print_string">>, <<"label", "print_int">>, <<"emit", 3>>,
    <<"fixup", "print_int_pos">>, <<"emit", 3>>, <<"fixup", "putchar">>, <<"emit", 7>>,
    <<"label", "print_int_pos">>, <<"emit", 6>>, <<"fixup", "print_digit">>, <<"emit", 4>>,
    <<"fixup", "print_digit">>, <<"emit", 4>>, <<"fixup", "print_digit">>, <<"emit", 4>>,
    <<"fixup", "print_digit">>, <<"emit", 4>>, <<"fixup", "putchar">>, <<"emit", 1>>,
    <<"label", "print_digit">>, <<"emit", 2>>, <<"label", "print_digit_loop">>, <<"emit", 4>>,
    <<"fixup", "print_digit_done">>, <<"emit", 2>>, <<"fixup", "print_digit_loop">>,
    <<"label", "print_digit_done">>, <<"emit", 4>>, <<"fixup", "print_digit_out">>, <<"emit", 4>>,
    <<"label", "print_digit_out">>, <<"emit", 5>>, <<"fixup", "putchar">>, <<"emit", 1>>,
    <<"label", "print_int_padded">>, <<"emit", 3>>, <<"fixup", "print_int_padded_go">>, <<"emit", 4>>,
    <<"fixup", "print_pad_2">>, <<"emit", 3>>, <<"fixup", "putchar">>, <<"emit", 1>>, <<"fixup", "putchar">>,
    <<"emit", 1>>, <<"fixup", "putchar">>, <<"emit", 1>>, <<"fixup", "print_int_padded_go">>,
    <<"label", "print_pad_2">>, <<"emit", 3>>, <<"fixup", "print_pad_1">>, <<"emit", 3>>,
    <<"fixup", "putchar">>, <<"emit", 1>>, <<"fixup", "putchar">>, <<"emit", 1>>,
    <<"fixup", "print_int_padded_go">>, <<"label", "print_pad_1">>, <<"emit", 3>>, <<"fixup", "putchar">>,
    <<"label", "print_int_padded_go">>, <<"emit", 1>>, <<"fixup", "print_int">>, <<"label", "print_int_cell">>,
    <<"emit", 5>>, <<"fixup", "print_cell_calc_width">>, <<"emit", 10>>, <<"fixup", "print_cell_check_mag">>,
    <<"label", "print_cell_calc_width">>, <<"emit", 1>>, <<"label", "print_cell_check_mag">>, <<"emit", 7>>,
    <<"fixup", "print_cell_do_pad">>, <<"emit", 8>>, <<"fixup", "print_cell_do_pad">>, <<"emit", 8>>,
    <<"fixup", "print_cell_do_pad">>, <<"emit", 8>>, <<"fixup", "print_cell_do_pad">>, <<"emit", 1>>,
    <<"label", "print_cell_do_pad">>, <<"emit", 4>>, <<"fixup", "print_cell_no_pad">>, <<"emit", 1>>,
    <<"fixup", "print_cell_no_pad">>, <<"emit", 1>>, <<"label", "print_cell_pad_loop">>, <<"emit", 3>>,
    <<"fixup", "putchar">>, <<"emit", 2>>, <<"patch", "print_cell_pad_loop">>, <<"label", "print_cell_no_pad">>,
    <<"emit", 2>>, <<"fixup", "print_int">>, <<"label", "print_bcd_cell_signed">>, <<"emit", 3>>,
    <<"fixup", "print_bcd_cell">>, <<"emit", 5>>, <<"label", "skip_zeros_neg">>, <<"emit", 4>>,
    <<"fixup", "skip_zeros_neg_done">>, <<"emit", 2>>, <<"emit_relative", "skip_zeros_neg">>,
    <<"label", "skip_zeros_neg_done">>, <<"emit", 9>>, <<"fixup", "print_neg_no_pad">>, <<"emit", 1>>,
    <<"fixup", "print_neg_no_pad">>, <<"emit", 2>>, <<"label", "print_neg_pad">>, <<"emit", 3>>,
    <<"fixup", "putchar">>, <<"emit", 1>>, <<"emit_relative", "print_neg_pad">>, <<"emit", 1>>,
    <<"label", "print_neg_no_pad">>, <<"emit", 3>>, <<"fixup", "putchar">>, <<"emit", 1>>,
    <<"fixup", "print_string">>, <<"emit", 1>>, <<"label", "print_bcd_cell">>, <<"emit", 5>>,
    <<"label", "skip_zeros_loop">>, <<"emit", 4>>, <<"fixup", "skip_zeros_done">>, <<"emit", 2>>,
    <<"emit_relative", "skip_zeros_loop">>, <<"label", "skip_zeros_done">>, <<"emit", 8>>,
    <<"fixup", "print_bcd_no_pad">>, <<"emit", 1>>, <<"fixup", "print_bcd_no_pad">>, <<"emit", 2>>,
    <<"label", "print_bcd_pad_loop">>, <<"emit", 3>>, <<"fixup", "putchar">>, <<"emit", 1>>,
    <<"emit_relative", "print_bcd_pad_loop">>, <<"emit", 2>>, <<"fixup", "print_bcd_digits">>,
    <<"label", "print_bcd_no_pad">>, <<"label", "print_bcd_digits">>, <<"emit", 1>>,
    <<"fixup", "print_string">>, <<"emit", 1>>
    >>

\* emit_strings (codegen.rs 4445-4476).
emit_strings ==
    <<
    <<"label", "welcome_msg">>, <<"emit_string", 16>>, <<"label", "title_str">>, <<"emit_string", 32>>,
    <<"label", "help_str">>, <<"emit_string", 48>>, <<"label", "cmd_help_str">>, <<"emit_string", 38>>,
    <<"label", "goto_prompt">>, <<"emit_string", 21>>, <<"label", "repeat_prompt">>, <<"emit_string", 11>>,
    <<"label", "copy_to_prompt">>, <<"emit_string", 19>>, <<"label", "width_prompt">>, <<"emit_string", 14>>,
    <<"label", "quit_msg">>, <<"emit_string", 12>>, <<"label", "error_str">>, <<"emit_string", 6>>
    >>

\* resolve_fixups called before the strings are emitted.
generate_resolve_early ==
    emit_spreadsheet_startup \o emit_main_loop \o emit_display \o emit_input \o emit_cell_ops
        \o emit_bcd_add_sub \o emit_bcd_cmp \o emit_bcd_mul_div_conv \o emit_formula \o emit_io
        \o <<<<"resolve_fixups", 0>>>> \o emit_strings

\* generate: the emitting functions in the order of their calls, then
\* resolve_fixups.
generate ==
    emit_spreadsheet_startup \o emit_main_loop \o emit_display \o emit_input \o emit_cell_ops
        \o emit_bcd_add_sub \o emit_bcd_cmp \o emit_bcd_mul_div_conv \o emit_formula \o emit_io
        \o emit_strings \o <<<<"resolve_fixups", 0>>>>

\* The emitter after CodeGen::new(): nothing emitted, no label, no fixup.
\* rom0 is the byte at offset 0 (-1 while there is none), pos the length of
\* the output, relative the displacement bytes written so far, late whether
\* anything was emitted or declared after resolve_fixups.
CodeGen0 ==
    [op |-> "generate", pc |-> 1, pos |-> 0, rom0 |-> -1, labels |-> [n \in {} |-> 0], fixups |-> <<>>,
     relative |-> <<>>, resolved |-> 0, patched |-> <<>>, failed |-> FALSE, late |-> FALSE, rom_len |-> -1]

InitGen ==
    /\ startup
    /\ arg = <<>>
    /\ res = CodeGen0

\* The call generate() is about to make, and its argument.
Call(g) == IF g.op = "generate" /\ g.pc <= Len(generate) THEN generate[g.pc][1] ELSE "none"

Operand(g) == generate[g.pc][2]

\* The emitter g after n more bytes, the first of them b when known.
Appended(g, n, b) ==
    [g EXCEPT !.pc = g.pc + 1, !.pos = g.pos + n, !.rom0 = IF g.pos = 0 /\ n > 0 THEN b ELSE g.rom0, !.late = g.late \/ g.resolved > 0]

\* get_label(name).unwrap_or(0).
get_label_or_0(g, name) == IF name \in DOMAIN g.labels THEN g.labels[name] ELSE 0

\* emit, emit_word and the one-instruction helpers.
emit ==
    /\ Call(res) = "emit"
    /\ res' = Appended(res, Operand(res), 0)
    /\ UNCHANGED <<progVars, arg>>

\* ld_sp(nn): 0x31 and the word.
ld_sp ==
    /\ Call(res) = "ld_sp"
    /\ res' = Appended(res, 3, 49)
    /\ UNCHANGED <<progVars, arg>>

\* emit_string(s): the bytes of s and a NUL.
emit_string ==
    /\ Call(res) = "emit_string"
    /\ res' = Appended(res, Operand(res) + 1, 0)
    /\ UNCHANGED <<progVars, arg>>

\* label(name): name -> current address.
label ==
    /\ Call(res) = "label"
    /\ res' = [res EXCEPT !.pc = res.pc + 1, !.labels = (Operand(res) :> res.pos) @@ res.labels,
                          !.failed = res.failed \/ Operand(res) \in DOMAIN res.labels, !.late = res.late \/ res.resolved > 0]
    /\ UNCHANGED <<progVars, arg>>

\* fixup(name): a two-byte placeholder and a pending fixup at its offset.
fixup ==
    /\ Call(res) = "fixup"
    /\ res' = [Appended(res, 2, 0) EXCEPT !.fixups = Append(res.fixups, <<res.pos, Operand(res)>>)]
    /\ UNCHANGED <<progVars, arg>>

\* emit_relative(name): the displacement from the address after this byte,
\* truncated to a byte, appended at once.
emit_relative ==
    /\ Call(res) = "emit_relative"
    /\ res' = [Appended(res, 1, 0) EXCEPT !.relative = Append(res.relative,
                  [name |-> Operand(res), after |-> res.pos + 1, defined |-> Operand(res) \in DOMAIN res.labels,
                   byte |-> (get_label_or_0(res, Operand(res)) - (res.pos + 1)) % 256])]
    /\ UNCHANGED <<progVars, arg>>

\* rom_mut()[offset] = get_label(name).unwrap_or(0).wrapping_sub(pos()) as u8,
\* offset being that of the placeholder byte just emitted.
patch ==
    /\ Call(res) = "patch"
    /\ res' = [res EXCEPT !.pc = res.pc + 1, !.relative = Append(res.relative,
                  [name |-> Operand(res), after |-> res.pos, defined |-> Operand(res) \in DOMAIN res.labels,
                   byte |-> (get_label_or_0(res, Operand(res)) - res.pos) % 256])]
    /\ UNCHANGED <<progVars, arg>>

\* resolve_fixups: every pending fixup looked up; a missing label fails the
\* call and nothing is patched, else each field gets its label's address.
resolve_fixups ==
    /\ Call(res) = "resolve_fixups"
    /\ res' = [res EXCEPT !.pc = res.pc + 1, !.resolved = res.resolved + 1,
                          !.failed = res.failed \/ \E i \in 1..Len(res.fixups) : res.fixups[i][2] \notin DOMAIN res.labels,
                          !.patched = IF \E i \in 1..Len(res.fixups) : res.fixups[i][2] \notin DOMAIN res.labels THEN res.patched
                                      ELSE [i \in 1..Len(res.fixups) |-> <<res.fixups[i][1], res.labels[res.fixups[i][2]]>>]]
    /\ UNCHANGED <<progVars, arg>>

\* into_rom after generate() returned: the output as it is.
into_rom ==
    /\ res.op = "generate" /\ res.pc = Len(generate) + 1 /\ res.rom_len < 0
    /\ res' = [res EXCEPT !.rom_len = res.pos]
    /\ UNCHANGED <<progVars, arg>>

NextGen == emit \/ ld_sp \/ emit_string \/ label \/ fixup \/ emit_relative \/ patch \/ resolve_fixups \/ into_rom

SpecGen == InitGen /\ [][NextGen]_vars

\* A displacement byte as the signed number the processor takes it for.
Signed8(b) == IF b >= 128 THEN b - 256 ELSE b

\* C23: every short relative branch emitted by generate(), by emit_relative
\* or by the inline patch, names a label that was defined when the branch
\* was emitted; its displacement byte is the label's address minus the
\* address after the displacement byte, which lies in -128..127.
C23_RelativeBackward ==
    res.op = "generate"
        => \A i \in 1..Len(res.relative) :
               /\ res.relative[i].defined
               /\ res.relative[i].name \in DOMAIN res.labels
               /\ res.labels[res.relative[i].name] - res.relative[i].after \in -128..127
               /\ Signed8(res.relative[i].byte) = res.labels[res.relative[i].name] - res.relative[i].after

\* All emission is done; among the branches are the DJNZ of repl_copy_loop
\* and of copy_formula_loop (inline patches, six bytes back) and the three
\* branches of bcd_div, the longest 41 bytes back.
C23_Witness ==
    /\ res.op = "generate" /\ res.pc > Len(generate)
    /\ Len(res.relative) = 39
    /\ \E i \in 1..39 : res.relative[i].name = "repl_copy_loop" /\ res.relative[i].byte = 250
    /\ \E i \in 1..39 : res.relative[i].name = "copy_formula_loop" /\ res.relative[i].byte = 250
    /\ \E i \in 1..39 : res.relative[i].name = "bcd_div_loop" /\ res.relative[i].byte = 215
    /\ \E i \in 1..39 : res.relative[i].name = "bcd_div_carry"

\* C24: generate() completes: resolve_fixups runs once, as the last step,
\* after all emission, and patches every fixup with the address of its
\* label; the image into_rom returns starts with 0x31 (LD SP) at offset 0
\* and has more than 256 and fewer than 8192 bytes.
C24_GenerateCompletes ==
    /\ res.op = "generate" => (res.resolved <= 1 /\ ~res.late)
    /\ (res.op = "generate" /\ res.resolved = 1)
           => /\ res.pc = Len(generate) + 1
              /\ ~res.failed
              /\ Len(res.patched) = Len(res.fixups)
              /\ \A i \in 1..Len(res.fixups) : res.patched[i] = <<res.fixups[i][1], res.labels[res.fixups[i][2]]>>
    /\ (res.op = "generate" /\ res.rom_len >= 0)
           => /\ res.resolved = 1
              /\ res.rom0 = 49
              /\ res.rom_len > 256 /\ res.rom_len < 8192

\* into_rom has returned the image: 522 fixups were patched, among them the
\* forward reference of the first CALL to print_string.
C24_Witness ==
    /\ res.op = "generate" /\ res.rom_len = res.pos /\ res.resolved = 1
    /\ Len(res.patched) > 500
    /\ res.fixups[2][2] = "print_string" /\ res.patched[2][2] = res.labels["print_string"] /\ res.patched[2][2] > res.fixups[2][1]

\* C25: eval_expr returns for every formula text and every content of the
\* cell store: the walk of a range function is over and no division is
\* still subtracting when the evaluation is observed, whatever row numbers
\* the parser accepted and whatever the count of an @AVG is.
C25_EvalTerminates == res.op = "parse_func" => (~res.walking /\ ~res.hang)

\* The same for the ranges whose second row number is not 0 and, for @AVG,
\* whose count of Number and Formula cells is not a multiple of 256.
C25_TerminatesOtherwise ==
    (arg.rect.r2 # 255 /\ (arg.func = "AVG" => RectCount(cells, arg.rect) % 256 # 0 \/ RectCount(cells, arg.rect) = 0)) => C25_EvalTerminates

\* A walk that is not over after 2^MaxWalk cells has been through the same
\* column again and again: its first 257 calls of get_cell_addr end where
\* they began.
C25_WalkCycles ==
    (res.op = "parse_func" /\ res.walking) => (Len(res.calls) = 2048 /\ res.calls[257] = res.calls[1] /\ res.calls[2048][1] = res.calls[1][1])

(***************************************************************************)
(* The cursor commands: the four moves anywhere in the grid, /G and /R,    *)
(* on the sheet SheetMixed.                                                 *)
(***************************************************************************)
CR == 13

\* to uppercase if 'a'..'z'.
ToUpper(k) == IF k >= 97 /\ k < 123 THEN k - 32 ELSE k

\* The keys tried for a column letter, for a first digit and for what
\* follows it.
ColKeys == {65, 66, 80, 112, 81, 64, 49}

DigitKeys == 48..57

OtherKeys == {120}

\* goto_execute: TEMP1 to CURSOR_COL, TEMP1+1 decremented and clamped to
\* CURSOR_ROW.
goto_execute(col, n) ==
    /\ CURSOR_COL' = col
    /\ CURSOR_ROW' = IF (n - 1) % 256 < GRID_ROWS THEN (n - 1) % 256 ELSE GRID_ROWS - 1

\* The second digit added: A = first * 8, then ADD A,C three times, then
\* ADD A,B.
goto_two_digits(first, second) == (first * 8 + first + first + first + second) % 256

\* goto_execute storing the row without the test against GRID_ROWS.
goto_unclamped(k1, k2, k3) ==
    /\ EDIT_MODE = 0
    /\ cmds < MaxCmds
    /\ cmds' = cmds + 1
    /\ res' = [op |-> "cmd_goto"]
    /\ IF ToUpper(k1) < 65 \/ ToUpper(k1) >= 81 \/ k2 \notin DigitKeys \/ k3 \notin DigitKeys \cup {CR} THEN UNCHANGED <<CURSOR_COL, CURSOR_ROW>>
       ELSE /\ CURSOR_COL' = ToUpper(k1) - 65
            /\ CURSOR_ROW' = ((IF k3 = CR THEN k2 - 48 ELSE goto_two_digits(k2 - 48, k3 - 48)) - 1) % 256
    /\ UNCHANGED <<cells, heap, FORMULA_PTR, EDIT_MODE, INPUT_BUF, INPUT_LEN, script, commits, arg>>

\* '/' then 'G' with the keys k1, k2, k3: a column letter, a digit, then CR
\* or a second digit (and one more key, which is not looked at).
cmd_goto_keys(k1, k2, k3) ==
    /\ EDIT_MODE = 0
    /\ cmds < MaxCmds
    /\ cmds' = cmds + 1
    /\ res' = [op |-> "cmd_goto"]
    /\ IF ToUpper(k1) < 65 \/ ToUpper(k1) >= 81 \/ k2 \notin DigitKeys THEN UNCHANGED <<CURSOR_COL, CURSOR_ROW>>
       ELSE IF k3 = CR THEN goto_execute(ToUpper(k1) - 65, k2 - 48)
       ELSE IF k3 \notin DigitKeys THEN UNCHANGED <<CURSOR_COL, CURSOR_ROW>>
       ELSE goto_execute(ToUpper(k1) - 65, goto_two_digits(k2 - 48, k3 - 48))
    /\ UNCHANGED <<cells, heap, FORMULA_PTR, EDIT_MODE, INPUT_BUF, INPUT_LEN, script, commits, arg>>

cmd_goto == \E k1 \in ColKeys, k2 \in DigitKeys \cup OtherKeys, k3 \in DigitKeys \cup {CR} \cup OtherKeys : cmd_goto_keys(k1, k2, k3)

RECURSIVE repl_row_loop(_, _)
\* repl_row_loop: C = C * 10 + digit in eight bits, for each digit typed.
repl_row_loop(digits, c) ==
    IF digits = <<>> THEN c ELSE repl_row_loop(Tail(digits), (((c * 2) % 256) + ((c * 8) % 256) + Head(digits)) % 256)

\* The row numbers tried for /R, as typed.
RowTexts == {<<49>>, <<50>>, <<51>>, <<54, 52>>, <<54, 53>>, <<48>>, <<50, 53, 55>>, <<>>, <<49, 120>>}

\* repl_copy_loop: LD B,4; the first four bytes of the source cell put over
\* those of the destination cell.
repl_copy_loop(src, dst) == SubSeq(src, 1, 4) \o SubSeq(dst, 5, 6)

\* '/' then 'R': a column letter, digits up to CR; the cell under the
\* cursor copied to the destination and the cursor moved there.
cmd_replicate ==
    /\ EDIT_MODE = 0
    /\ cmds < MaxCmds
    /\ cmds' = cmds + 1
    /\ \E k1 \in ColKeys, txt \in RowTexts :
          \E c \in {repl_row_loop(txt, 0)} :
             IF ToUpper(k1) < 65 \/ ToUpper(k1) >= 81 \/ (\E i \in 1..Len(txt) : txt[i] \notin DigitKeys) \/ c = 0 \/ c - 1 >= GRID_ROWS
             THEN /\ res' = [op |-> "cmd_replicate", done |-> FALSE]
                  /\ UNCHANGED <<cells, CURSOR_COL, CURSOR_ROW>>
             ELSE /\ res' = [op |-> "cmd_replicate", done |-> TRUE]
                  /\ cells' = SetCell(cells, get_cell_addr(ToUpper(k1) - 65, c - 1),
                                      repl_copy_loop(CellAt(cells, get_cell_addr(CURSOR_COL, CURSOR_ROW)), CellAt(cells, get_cell_addr(ToUpper(k1) - 65, c - 1))))
                  /\ CURSOR_COL' = ToUpper(k1) - 65
                  /\ CURSOR_ROW' = c - 1
    /\ UNCHANGED <<heap, FORMULA_PTR, EDIT_MODE, INPUT_BUF, INPUT_LEN, script, commits, arg>>

InitNav ==
    /\ cells = SheetMixed.cells
    /\ heap = SheetMixed.heap
    /\ FORMULA_PTR = SheetMixed.FORMULA_PTR
    /\ CURSOR_COL = 0
    /\ CURSOR_ROW = 0
    /\ EDIT_MODE = 0
    /\ INPUT_BUF = <<>>
    /\ INPUT_LEN = 0
    /\ script = <<>>
    /\ commits = 0
    /\ cmds = 0
    /\ arg = <<>>
    /\ res = NoRes

NextNav ==
    \/ move_left
    \/ move_right_within(GRID_COLS)
    \/ move_up
    \/ move_down_within(GRID_ROWS)
    \/ cmd_goto
    \/ cmd_replicate

SpecNav == InitNav /\ [][NextNav]_vars

\* A move made at the edge it moves towards.
C26_EdgeStep ==
    /\ (move_left /\ CURSOR_COL = 0) => UNCHANGED <<CURSOR_COL, CURSOR_ROW>>
    /\ (move_right_within(GRID_COLS) /\ CURSOR_COL = GRID_COLS - 1) => UNCHANGED <<CURSOR_COL, CURSOR_ROW>>
    /\ (move_up /\ CURSOR_ROW = 0) => UNCHANGED <<CURSOR_COL, CURSOR_ROW>>
    /\ (move_down_within(GRID_ROWS) /\ CURSOR_ROW = GRID_ROWS - 1) => UNCHANGED <<CURSOR_COL, CURSOR_ROW>>

\* C26: after any sequence of moves, /G with any keys and /R with any
\* destination the cursor is in the grid, 0 <= CURSOR_COL <= 15 and
\* 0 <= CURSOR_ROW <= 63, and a move made at an edge leaves it where it is.
C26_CursorInGrid == [](CURSOR_COL \in 0..(GRID_COLS - 1) /\ CURSOR_ROW \in 0..(GRID_ROWS - 1)) /\ [][C26_EdgeStep]_vars

\* The cursor stands in the last column and the last row after a /G.
C26_Witness ==
    /\ res.op = "cmd_goto"
    /\ CURSOR_COL = GRID_COLS - 1 /\ CURSOR_ROW = GRID_ROWS - 1

\* The row number typed: one digit, or first digit * 10 + second digit.
RowTyped(k2, k3) == IF k3 = CR THEN k2 - 48 ELSE (k2 - 48) * 10 + (k3 - 48)

\* Where /G with a valid column letter and the row number n is to put the
\* cursor.
GotoTarget(k1, n) == <<ToUpper(k1) - 65, IF n \in 1..GRID_ROWS THEN n - 1 ELSE GRID_ROWS - 1>>

\* The column letters among the keys tried.
ColLetters == {k \in ColKeys : ToUpper(k) \in 65..80}

\* C29: /G with a column letter A-P and a row number N typed as one or two
\* digits (first digit * 10 + second digit) moves the cursor to column
\* letter - 'A' and row N - 1 when N is in 1..64, and to row 63 otherwise.
C29_GotoRow ==
    [][cmds' # cmds =>
          \A k1 \in ColLetters, k2 \in DigitKeys, k3 \in DigitKeys \cup {CR} :
             cmd_goto_keys(k1, k2, k3) => <<CURSOR_COL, CURSOR_ROW>>' = GotoTarget(k1, RowTyped(k2, k3))]_vars

\* The same for row numbers below 10 (one digit, or a first digit 0).
C29_GotoRowBelowTen ==
    [][cmds' # cmds =>
          \A k1 \in ColLetters, k2 \in DigitKeys, k3 \in DigitKeys \cup {CR} :
             (cmd_goto_keys(k1, k2, k3) /\ (k3 = CR \/ k2 = 48)) => <<CURSOR_COL, CURSOR_ROW>>' = GotoTarget(k1, RowTyped(k2, k3))]_vars

\* What the two digits give: first digit * 11 + second digit.
C29_GotoRowAsComputed ==
    [][cmds' # cmds =>
          \A k1 \in ColLetters, k2 \in DigitKeys, k3 \in DigitKeys :
             cmd_goto_keys(k1, k2, k3) => <<CURSOR_COL, CURSOR_ROW>>' = GotoTarget(k1, (k2 - 48) * 11 + (k3 - 48))]_vars

\* The cell under the cursor.
CursorCell(cs, col, row) == CellAt(cs, get_cell_addr(col, row))

\* C27: when /R completes with a valid destination, the destination cell
\* has the type and the value of the source cell (for a Number the same
\* sign and the same four bytes of magnitude, for a Formula or a Label the
\* same text in the heap), and the source cell is as it was.
C27_ReplicateCopies ==
    [][(cmd_replicate /\ res'.done) =>
          \E src \in {CursorCell(cells, CURSOR_COL, CURSOR_ROW)}, dst \in {CursorCell(cells', CURSOR_COL', CURSOR_ROW')} :
             /\ dst[1] = src[1]
             /\ src[1] = CELL_NUMBER => dst = src
             /\ src[1] \in {CELL_FORMULA, CELL_LABEL} => (dst[3] = src[3] /\ dst[4] = src[4])
             /\ CursorCell(cells', CURSOR_COL, CURSOR_ROW) = src]_vars

\* The same for every source that is not a Number.
C27_ReplicateOtherTypes ==
    [][(cmd_replicate /\ res'.done /\ CursorCell(cells, CURSOR_COL, CURSOR_ROW)[1] # CELL_NUMBER) =>
          \E src \in {CursorCell(cells, CURSOR_COL, CURSOR_ROW)}, dst \in {CursorCell(cells', CURSOR_COL', CURSOR_ROW')} :
             /\ dst[1] = src[1]
             /\ src[1] \in {CELL_FORMULA, CELL_LABEL} => (dst[3] = src[3] /\ dst[4] = src[4])
             /\ CursorCell(cells', CURSOR_COL, CURSOR_ROW) = src]_vars

\* What a Number source gives: type, sign and the first two bytes of the
\* magnitude are the source's, the last two bytes are those the destination
\* had.
C27_ReplicateNumberAsCopied ==
    [][(cmd_replicate /\ res'.done /\ CursorCell(cells, CURSOR_COL, CURSOR_ROW)[1] = CELL_NUMBER) =>
          \E src \in {CursorCell(cells, CURSOR_COL, CURSOR_ROW)}, dst \in {CursorCell(cells', CURSOR_COL', CURSOR_ROW')} :
             /\ SubSeq(dst, 1, 4) = SubSeq(src, 1, 4)
             /\ SubSeq(dst, 5, 6) = SubSeq(CursorCell(cells, CURSOR_COL', CURSOR_ROW'), 5, 6)]_vars

\* The text of a Formula cell and the value kept after it in the heap (a
\* sign byte and four bytes of magnitude).
FormulaOf(cs, hp, addr) ==
    [text |-> HeapText(cs, hp, Peek(cs, hp, addr + 2) + 256 * Peek(cs, hp, addr + 3)),
     value |-> <<Peek(cs, hp, FindEnd(cs, hp, Peek(cs, hp, addr + 2) + 256 * Peek(cs, hp, addr + 3)))>>
               \o Peek4(cs, hp, FindEnd(cs, hp, Peek(cs, hp, addr + 2) + 256 * Peek(cs, hp, addr + 3)) + 1)]

\* confirm_edit was applied to the line that start_edit loads from the cell
\* under the cursor, whose type is t.
RoundTrip(t) ==
    /\ res.op = "confirm_edit"
    /\ CellAt(res.cells0, res.addr)[1] = t
    /\ res.text = load_cell_to_input(res.cells0, res.heap0, res.addr)

\* C28 for a Number cell: type, sign and magnitude are as before.
C28_NumberRoundTrip ==
    RoundTrip(CELL_NUMBER) =>
       \E r \in {parse_and_store(res.text, Len(res.text), res.cells0, res.heap0, res.ptr0, res.addr)} :
          CellAt(r.cells, res.addr) = CellAt(res.cells0, res.addr)

\* C28 for a Formula cell: the cell is a Formula with the text and the value
\* it had.
C28_FormulaRoundTrip ==
    RoundTrip(CELL_FORMULA) =>
       \E r \in {parse_and_store(res.text, Len(res.text), res.cells0, res.heap0, res.ptr0, res.addr)} :
          /\ CellAt(r.cells, res.addr)[1] = CELL_FORMULA
          /\ FormulaOf(r.cells, r.heap, res.addr) = FormulaOf(res.cells0, res.heap0, res.addr)

\* C28: CR on a Number or a Formula cell followed by CR, nothing typed in
\* between, leaves the Number's type, sign and magnitude, and the Formula's
\* text and value, as they were.
C28_EditRoundTrip == C28_NumberRoundTrip /\ C28_FormulaRoundTrip

\* The Formula part when no '/' command and no recalculation came before.
C28_FormulaRoundTripNoCmd == cmds = 0 => C28_FormulaRoundTrip

\* What the round trip of a Number gives: the text loaded is the decimal
\* form of the 16-bit number in bytes 2-3 of the cell, and that is stored.
C28_NumberAsLoaded ==
    RoundTrip(CELL_NUMBER) =>
       /\ res.text = int_to_str(CellAt(res.cells0, res.addr)[3] + 256 * CellAt(res.cells0, res.addr)[4])
       /\ \E r \in {parse_and_store(res.text, Len(res.text), res.cells0, res.heap0, res.ptr0, res.addr)} :
             (CellAt(res.cells0, res.addr)[3] = 0 /\ CellAt(res.cells0, res.addr)[4] = 0) => CellAt(r.cells, res.addr) = NumberCell(0, Zero4)

====
